---- MODULE Spec2Model ----
(***************************************************************************)
(* Model of prometools: the lock-free TimeHistogram and its HistogramTimer *)
(* (src/src/histogram.rs).                                                 *)
(*                                                                         *)
(* u64 values are kept at their real width.  TLC's integers are 32 bit, so *)
(* a u64 is a sequence of bytes, least significant first, without leading  *)
(* zeros (0 is <<>>).  f64 values are records [nan, neg, m, e] standing    *)
(* for (-1)^neg * m * 2^e, m such a number of at most 53 bits, and the two *)
(* f64 operations the code uses (u64 -> f64, f64 * f64) round to nearest,  *)
(* ties to even, as IEEE 754 does.                                         *)
(*                                                                         *)
(* The specifications share the variables:                                 *)
(*   Spec      one thread that starts, pauses, resumes, stops and drops    *)
(*             timers while the clock advances;                            *)
(*   SpecHist  threads whose observe() calls interleave at the grain of    *)
(*             the three atomic updates;                                   *)
(*   SpecSnap  the same threads and a reader whose get() interleaves with  *)
(*             them at the grain of its loads, each snapshot then encoded  *)
(*             for exposition;                                             *)
(*   SpecFamily  threads that call get_or_create, remove, clear and encode *)
(*             on one Family (src/src/serde/mod.rs), at the grain of the   *)
(*             acquisitions of its RwLock;                                 *)
(*   SpecSer   the serialization of one label set (src/src/serde/top.rs,   *)
(*             value.rs, str.rs), field by field, into a writer that may   *)
(*             fail.  Text is a sequence of characters.                    *)
(***************************************************************************)
EXTENDS Integers, Sequences, FiniteSets, TLC

\* ------------------------------------------------------------------ bounds
\* One clock step, in nanoseconds (a quarter of a second).
Tick == 250000000
\* The clock advances at most this many steps.
MaxTicks == 3
\* At most this many timers are started one after the other.
MaxTimers == 2
\* At most this many observe() calls are started by the observer threads.
MaxCalls == 4
\* The same, where snapshots are taken meanwhile.
SnapCalls == 2
\* At most this many snapshots are taken.
MaxSnaps == 3
\* At most this many methods are called on the Family.
MaxFamilyCalls == 4
\* At most this many increments are made through references to its metrics.
MaxIncs == 1
\* A thread holds at most this many references at a time.
MaxHeld == 2
\* A serialized struct has at most this many fields.
MaxFields == 2
\* A Family that is encoded with label sets of several makes has at most
\* this many entries.
MaxEntries == 2
\* A writer that fails takes at most this many characters first.
MaxLimit == 6
\* The keys tried one by one have at most this many characters.
MaxKeyLen == 2
\* The strings tried one by one have at most this many characters.
MaxStrLen == 3

\* ------------------------------------------------ unsigned integers, bytes
Min(a, b) == IF a <= b THEN a ELSE b
Max(a, b) == IF a >= b THEN a ELSE b

\* The base of the digits: one byte.
Base == 256

\* Digit i (from 1, least significant first) of a sequence, 0 beyond its end.
At(b, i) == IF i >= 1 /\ i <= Len(b) THEN b[i] ELSE 0

\* A digit sequence without its leading (most significant) zeros.
Norm(b) ==
    LET nz == {i \in 1..Len(b) : b[i] # 0}
    IN  IF nz = {} THEN <<>>
        ELSE SubSeq(b, 1, CHOOSE i \in nz : \A j \in nz : j <= i)

RECURSIVE NatToBytes(_)
NatToBytes(n) == IF n = 0 THEN <<>> ELSE <<n % Base>> \o NatToBytes(n \div Base)

RECURSIVE Prop(_, _, _)
\* Carry propagation: the digits of the number whose column i holds cols[i].
Prop(cols, i, c) ==
    IF i > Len(cols)
    THEN (IF c = 0 THEN <<>> ELSE <<c % Base>> \o Prop(cols, i, c \div Base))
    ELSE <<(cols[i] + c) % Base>> \o Prop(cols, i + 1, (cols[i] + c) \div Base)

\* a + b, unbounded.
AddBytes(a, b) ==
    Norm(Prop([i \in 1..Max(Len(a), Len(b)) |-> At(a, i) + At(b, i)], 1, 0))

RECURSIVE Column(_, _, _, _)
\* The sum of a[i] * b[k + 1 - i] over i in 1..n.
Column(a, b, k, n) ==
    IF n = 0 THEN 0 ELSE At(a, n) * At(b, k + 1 - n) + Column(a, b, k, n - 1)

\* a * b, unbounded.
MulBytes(a, b) ==
    IF a = <<>> \/ b = <<>> THEN <<>>
    ELSE Norm(Prop([k \in 1..(Len(a) + Len(b) - 1) |-> Column(a, b, k, Len(a))], 1, 0))

\* The number of bits of a digit below Base.
DigitBits(x) == CHOOSE n \in 0..8 : x < 2 ^ n /\ (n = 0 \/ x >= 2 ^ (n - 1))

\* The number of bits of a normalised number.
BitLen(b) == IF b = <<>> THEN 0 ELSE 8 * (Len(b) - 1) + DigitBits(b[Len(b)])

\* Bit i (from 0) of a number.
Bit(b, i) == (At(b, (i \div 8) + 1) \div (2 ^ (i % 8))) % 2

\* floor(b / 2^k).
ShiftRight(b, k) ==
    LET q == k \div 8
        r == k % 8
    IN  Norm([i \in 1..Max(Len(b) - q, 0) |->
                (At(b, i + q) \div (2 ^ r)) + (At(b, i + q + 1) % (2 ^ r)) * (2 ^ (8 - r))])

\* b * 2^k.
ShiftLeft(b, k) == MulBytes(b, [i \in 1..(k \div 8) |-> 0] \o <<2 ^ (k % 8)>>)

\* a >= b for two normalised numbers.
GeBytes(a, b) ==
    IF Len(a) # Len(b) THEN Len(a) > Len(b)
    ELSE \/ a = b
         \/ \E i \in 1..Len(a) : a[i] > b[i] /\ \A j \in (i + 1)..Len(a) : a[j] = b[j]

\* The number of bytes of the atomic counters (AtomicU64).
U64Bytes == 8

\* `as u64`, and the wrap of AtomicU64::fetch_add: the low 64 bits.
WrapU64(b) == Norm(SubSeq(b, 1, Min(Len(b), U64Bytes)))

One == <<1>>

U64MAX == [i \in 1..U64Bytes |-> Base - 1]

\* AtomicU64::fetch_add(v, Relaxed): the new value of the counter.
fetch_add(x, v) == WrapU64(AddBytes(x, v))

\* ------------------------------------------------------------------- f64
\* The width of an f64 significand.
MantBits == 53

Fin(m, e) == [nan |-> FALSE, neg |-> FALSE, m |-> Norm(m), e |-> e]
NegFin(m, e) == [nan |-> FALSE, neg |-> TRUE, m |-> Norm(m), e |-> e]
NaN == [nan |-> TRUE, neg |-> FALSE, m |-> <<>>, e |-> 0]

\* Round the integer b * 2^e to a 53-bit significand: to nearest, ties to even.
Round(b, e) ==
    LET n == Norm(b)
        k == BitLen(n) - MantBits
    IN  IF k <= 0 THEN Fin(n, e)
        ELSE LET q      == ShiftRight(n, k)
                 half   == Bit(n, k - 1) = 1
                 sticky == \E i \in 0..(k - 2) : Bit(n, i) = 1
                 up     == half /\ (sticky \/ Bit(q, 0) = 1)
                 r      == IF up THEN AddBytes(q, One) ELSE q
             IN  IF BitLen(r) > MantBits
                 THEN Fin(ShiftRight(r, 1), e + k + 1)
                 ELSE Fin(r, e + k)

\* `val as f64` for a u64.
as_f64(val) == Round(val, 0)

\* x * y for two finite non-negative f64 (no overflow or underflow arises for
\* the product of a u64 and 1E-9).
F64Mul(x, y) == Round(MulBytes(x.m, y.m), x.e + y.e)

\* |a| >= |b| for two finite f64 that are not zero.
MagGe(a, b) ==
    LET ta == BitLen(a.m) + a.e
        tb == BitLen(b.m) + b.e
        d  == a.e - b.e
    IN  IF ta # tb THEN ta > tb
        ELSE IF d >= 0 THEN GeBytes(ShiftLeft(a.m, d), b.m)
        ELSE GeBytes(a.m, ShiftLeft(b.m, -d))

\* a >= b on f64: false when either is NaN.
F64Ge(a, b) ==
    IF a.nan \/ b.nan THEN FALSE
    ELSE IF b.m = <<>> THEN (~a.neg \/ a.m = <<>>)
    ELSE IF a.m = <<>> THEN b.neg
    ELSE IF a.neg # b.neg THEN b.neg
    ELSE IF a.neg THEN MagGe(b, a) ELSE MagGe(a, b)

\* The literal 1E-9: 0x1.12e0be826d695p-30, that is 0x112E0BE826D695 * 2^-82.
F64_1Em9 == Fin(<<149, 214, 38, 232, 11, 46, 17>>, -82)

\* f64::MAX: 0x1.fffffffffffffp+1023, that is (2^53 - 1) * 2^971.
F64_MAX == Fin(<<255, 255, 255, 255, 255, 255, 31>>, 971)

\* fn seconds(val: u64) -> f64, also the `v as f64 * 1E-9` of observe_and_bucket.
seconds(val) == F64Mul(as_f64(val), F64_1Em9)

\* ------------------------------------------------------------------ state
VARIABLES
    inner,      \* struct Inner: [sum, count, buckets], buckets a sequence of <<upper_bound, value>>
    given,      \* the bounds the caller handed to TimeHistogram::new
    now,        \* the reading Instant::now() returns, in nanoseconds
    timer,      \* struct HistogramTimer: [observed, start, accumulated]
    tstate,     \* "none": no timer yet, "live": the timer value exists, "gone": consumed or dropped
    nTimers,    \* timers started so far
    ret,        \* what stop_and_record / stop_and_discard returned, None before
    tlog,       \* the values the current timer passed to TimeHistogram::observe
    fins,       \* how each finished timer was finalized
    running,    \* the time the current timer has spent Running so far
    born,       \* the clock reading when the current timer was started
    pc,         \* per observer thread: its place in observe_and_bucket
    arg,        \* per observer thread: the v of its call
    started,    \* observe() calls started by the threads
    completed,  \* observe() calls returned
    total,      \* the unbounded total of the values of the calls started
    spc,        \* the snapshot reader's place in get()
    snap,       \* the snapshot being read, then returned: [sum, count, buckets]
    nSnaps,     \* snapshots started
    snapClean,  \* no observe() was in flight at any time during the snapshot
    snapTotal,  \* the value of total when the snapshot began
    out,        \* the samples the encoding of the last snapshot wrote
    seen,       \* the kinds of calls and of snapshots met so far
    lastOp,     \* the timer operation that made the last step
    pre,        \* [timer, inner, now] before that operation
    metrics,    \* Family.metrics, the HashMap: label set |-> [id, val], a metric instance and its state
    lock,       \* the RwLock around it: [writer, readers]
    fpc,        \* per thread: its place in the Family method it is in
    fcall,      \* per thread: the label set of that call
    refs,       \* per thread: the references (MappedRwLockReadGuard) it holds
    fret,       \* per thread: what its last remove or encode returned
    nextId,     \* metric instances the constructor has made so far
    nCalls,     \* Family methods called so far
    nIncs,      \* increments made through references so far
    expect,     \* per label set: the instance get_or_create last gave out, with the increments made
    gone,       \* per label set: the instance a remove took away last
    cleared,    \* a clear() has returned and no get_or_create since
    sval,       \* the label set value handed to Serialize::serialize
    sw,         \* the Writer: [buf, left], what was written and the writes it still takes
    shas,       \* StructSerializer.has_written_anything
    stodo,      \* the fields the struct's Serialize has yet to pass to serialize_field
    sres,       \* the Result of the serialization, "none" before
    splace,     \* the place of the serialization: "idle", "top", "fields", "done"
    evisit,     \* the label sets whose entry Family::encode has come to, in order
    eres        \* the Result of Family::encode, "none" before

timerVars == <<now, timer, tstate, nTimers, ret, tlog, fins, running, born>>
threadVars == <<pc, arg, started, completed, total>>
snapVars == <<spc, snap, nSnaps, snapClean, snapTotal, out, seen>>
\* The Family, and the rest.
famVars == <<metrics, lock, fpc, fcall, refs, fret, nextId, nCalls, nIncs, expect, gone, cleared>>
histVars == <<inner, given, timerVars, threadVars, spc, snap, nSnaps, snapClean, snapTotal, out,
              lastOp, pre>>
\* The serializer.
serVars == <<sval, sw, shas, stodo, sres, splace, evisit, eres>>
vars == <<inner, given, timerVars, threadVars, snapVars, lastOp, pre, famVars, serVars>>

None == <<>>
Some(x) == <<x>>

\* The observer threads.
Threads == {"t1", "t2"}

\* The values the threads observe, in nanoseconds: 0.25 s, 1 s, u64::MAX.
Values == {NatToBytes(Tick), NatToBytes(4 * Tick), U64MAX}

\* The bounds a caller hands to TimeHistogram::new: none, ascending, not
\* ascending (the code does not sort), and with a NaN and a negative bound.
F64_0_25 == Fin(<<1>>, -2)
F64_0_5 == Fin(<<1>>, -1)
F64_1_0 == Fin(<<1>>, 0)
BucketConfigs ==
    {<<>>, <<F64_0_25, F64_1_0>>, <<F64_1_0, F64_0_5>>, <<NaN, NegFin(<<1>>, 0), F64_0_5>>}

\* The values observed, and the bounds of the histogram, where snapshots are
\* taken meanwhile.
SnapValues == {NatToBytes(4 * Tick), U64MAX}
SnapConfigs == {<<F64_1_0>>}

\* The bounds of the histograms the timers record into.
TimerConfigs == {<<F64_0_25, F64_1_0>>, <<F64_1_0, F64_0_5>>}

\* -------------------------------------------------------------- histogram
\* Variant of new without the f64::MAX bucket.
new_without_sentinel(buckets) ==
    [sum     |-> <<>>,
     count   |-> <<>>,
     buckets |-> [i \in 1..Len(buckets) |-> <<buckets[i], <<>>>>]]

\* TimeHistogram::new
new(buckets) ==
    [sum     |-> <<>>,
     count   |-> <<>>,
     buckets |-> [i \in 1..(Len(buckets) + 1) |->
                    <<(buckets \o <<F64_MAX>>)[i], <<>>>>]]

RECURSIVE find_last(_, _, _)
\* Variant of find that returns the last match.
find_last(buckets, x, i) ==
    IF i > Len(buckets) THEN 0
    ELSE IF find_last(buckets, x, i + 1) # 0 THEN find_last(buckets, x, i + 1)
    ELSE IF F64Ge(buckets[i][1], x) THEN i
    ELSE 0

RECURSIVE find(_, _, _)
\* .iter().enumerate().find(|(_, (upper_bound, _))| upper_bound >= &x), from
\* index i on: the index found, 0 for None.
find(buckets, x, i) ==
    IF i > Len(buckets) THEN 0
    ELSE IF F64Ge(buckets[i][1], x) THEN i
    ELSE find(buckets, x, i + 1)

\* first_bucket of observe_and_bucket.
first_bucket(buckets, v) == find(buckets, seconds(v), 1)

\* The three atomic updates of observe_and_bucket, each on the Inner h.
\* Variant of the sum update that saturates.
add_sum_saturating(h, v) ==
    [h EXCEPT !.sum = IF Len(AddBytes(@, v)) > U64Bytes THEN U64MAX ELSE AddBytes(@, v)]
\* Variant of the sum update that leaves the sum as it is where the addition
\* does not fit.
add_sum_checked(h, v) ==
    [h EXCEPT !.sum = IF Len(AddBytes(@, v)) > U64Bytes THEN @ ELSE AddBytes(@, v)]
add_sum(h, v) == [h EXCEPT !.sum = fetch_add(@, v)]
\* Variant of the count update that stores instead of adding.
add_count_store(h) == [h EXCEPT !.count = One]
add_count(h) == [h EXCEPT !.count = fetch_add(@, One)]
\* Variant of the bucket update that counts the value in every bucket whose
\* bound is at or above it.
add_bucket_cumulative(h, v) ==
    [h EXCEPT !.buckets = [i \in 1..Len(@) |->
        IF F64Ge(@[i][1], seconds(v)) THEN <<@[i][1], fetch_add(@[i][2], One)>> ELSE @[i]]]
add_bucket(h, v) ==
    LET i == first_bucket(h.buckets, v)
    IN  IF i = 0 THEN h ELSE [h EXCEPT !.buckets[i][2] = fetch_add(@, One)]

\* TimeHistogram::observe_and_bucket, run without interruption.
observe_and_bucket(h, v) == add_bucket(add_count(add_sum(h, v)), v)

\* TimeHistogram::observe
observe(h, nanos) == observe_and_bucket(h, nanos)

\* ------------------------------------------------------------------ timer
\* Instant::saturating_duration_since
saturating_duration_since(later, earlier) ==
    IF later >= earlier THEN later - earlier ELSE 0

\* `elapsed.as_nanos() as u64`
as_nanos_u64(d) == WrapU64(NatToBytes(d))

\* Variant of start_timer whose timer is not running yet.
start_timer_paused(n) == [observed |-> FALSE, start |-> None, accumulated |-> 0]
\* TimeHistogram::start_timer
start_timer(n) == [observed |-> FALSE, start |-> Some(n), accumulated |-> 0]

\* Variant of pause that leaves start set.
pause_keeps_start(t, n) ==
    [t EXCEPT !.accumulated = @ + (IF t.start = None THEN 0
                                   ELSE saturating_duration_since(n, t.start[1]))]

\* Variant of pause that subtracts the readings without saturating.
pause_unsaturated(t, n) ==
    [t EXCEPT !.accumulated = @ + (IF t.start = None THEN 0 ELSE n - t.start[1]),
              !.start = None]

\* HistogramTimer::pause
pause(t, n) ==
    [t EXCEPT !.accumulated = @ + (IF t.start = None THEN 0
                                   ELSE saturating_duration_since(n, t.start[1])),
              !.start = None]

\* Variant of resume that restarts the running interval.
resume_restarts(t, n) == [t EXCEPT !.start = Some(n)]

\* HistogramTimer::resume
resume(t, n) == IF t.start = None THEN [t EXCEPT !.start = Some(n)] ELSE t

\* Variant of HistogramTimer::observe that does not set observed.
timer_observe_unmarked(t, h, n, record) ==
    LET elapsed == (IF t.start = None THEN 0 ELSE saturating_duration_since(n, t.start[1]))
                   + t.accumulated
    IN  [timer   |-> t,
         inner   |-> IF record THEN observe(h, as_nanos_u64(elapsed)) ELSE h,
         elapsed |-> elapsed,
         log     |-> IF record THEN <<as_nanos_u64(elapsed)>> ELSE <<>>]

\* HistogramTimer::observe: the timer and the histogram afterwards, the
\* Duration returned, and the values handed to TimeHistogram::observe.
timer_observe(t, h, n, record) ==
    LET elapsed_since_start ==
            IF t.start = None THEN 0 ELSE saturating_duration_since(n, t.start[1])
        elapsed == elapsed_since_start + t.accumulated
    IN  [timer   |-> [t EXCEPT !.observed = TRUE],
         inner   |-> IF record THEN observe(h, as_nanos_u64(elapsed)) ELSE h,
         elapsed |-> elapsed,
         log     |-> IF record THEN <<as_nanos_u64(elapsed)>> ELSE <<>>]

\* Variant of drop that records only the running interval.
drop_without_accumulated(t, h, n) ==
    IF ~t.observed
    THEN timer_observe([t EXCEPT !.accumulated = 0], h, n, TRUE)
    ELSE [timer |-> t, inner |-> h, elapsed |-> 0, log |-> <<>>]

\* impl Drop for HistogramTimer
drop(t, h, n) ==
    IF ~t.observed
    THEN timer_observe(t, h, n, TRUE)
    ELSE [timer |-> t, inner |-> h, elapsed |-> 0, log |-> <<>>]

\* The end of a stop method: its result r, then the drop of the consumed
\* timer value.
then_drop(r, n) ==
    LET d == drop(r.timer, r.inner, n)
    IN  [timer |-> d.timer, inner |-> d.inner, elapsed |-> r.elapsed,
         log |-> r.log \o d.log]

\* HistogramTimer::stop_and_record
stop_and_record(t, h, n) == then_drop(timer_observe(t, h, n, TRUE), n)

\* Variant of stop_and_discard that records.
stop_and_discard_records(t, h, n) == then_drop(timer_observe(t, h, n, TRUE), n)

\* HistogramTimer::stop_and_discard
stop_and_discard(t, h, n) == then_drop(timer_observe(t, h, n, FALSE), n)

\* -------------------------------------------------- actions of the timer
NoTimer == [observed |-> FALSE, start |-> None, accumulated |-> 0]

Idle == /\ pc = [t \in Threads |-> "idle"]
        /\ arg = [t \in Threads |-> <<>>]
        /\ started = 0 /\ completed = 0 /\ total = <<>>
        /\ spc = "idle" /\ snap = [sum |-> None, count |-> None, buckets |-> <<>>]
        /\ nSnaps = 0 /\ snapClean = TRUE /\ snapTotal = <<>> /\ out = <<>> /\ seen = {}

NoTimers == /\ now = 0 /\ timer = NoTimer /\ tstate = "none" /\ nTimers = 0
            /\ ret = None /\ tlog = <<>> /\ fins = <<>> /\ running = 0 /\ born = 0

\* HashMap::new()
EmptyMap == [k \in {} |-> 0]

\* Family::default(): an empty map, its lock free, no thread in a method.
NoReturn == [op |-> "none", present |-> FALSE, out |-> <<>>, cleared |-> FALSE]

NoFamily ==
    /\ metrics = EmptyMap
    /\ lock = [writer |-> FALSE, readers |-> 0]
    /\ fpc = [t \in Threads |-> "idle"]
    /\ fcall = [t \in Threads |-> ""]
    /\ refs = [t \in Threads |-> <<>>]
    /\ fret = [t \in Threads |-> NoReturn]
    /\ nextId = 0 /\ nCalls = 0 /\ nIncs = 0
    /\ expect = EmptyMap /\ gone = EmptyMap /\ cleared = FALSE

\* A serialized value: its kind, and what the kind carries: text (a string, a
\* char, a name), num (an integer, a bool as 0 or 1), of (the value wrapped,
\* if any, as a sequence of at most one) and fields (of a struct, each
\* [key, value]).
Val(kind, text, num, of, fields) ==
    [kind |-> kind, text |-> text, num |-> num, of |-> of, fields |-> fields]

\* A value that carries nothing: unit, None, bytes, a sequence, a map, ...
Bare(kind) == Val(kind, <<>>, 0, <<>>, <<>>)

\* A writer that takes any number of writes.
Unlimited == -1

\* No serialization is in progress.
NoSer ==
    /\ sval = Bare("unit")
    /\ sw = [buf |-> <<>>, left |-> Unlimited]
    /\ shas = FALSE /\ stodo = <<>> /\ sres = "none" /\ splace = "idle"
    /\ evisit = <<>> /\ eres = "none"

\* A new histogram, no timer yet, no thread observing.
Init ==
    /\ \E b \in TimerConfigs : given = b /\ inner = new(b)
    /\ NoTimers
    /\ Idle
    /\ NoFamily
    /\ NoSer
    /\ lastOp = "new"
    /\ pre = [timer |-> NoTimer, inner |-> inner, now |-> 0]

Mark(op) == /\ lastOp' = op
            /\ pre' = [timer |-> timer, inner |-> inner, now |-> now]

StartTimer ==
    /\ tstate \in {"none", "gone"}
    /\ nTimers < MaxTimers
    /\ timer' = start_timer(now)
    /\ tstate' = "live"
    /\ nTimers' = nTimers + 1
    /\ ret' = None /\ tlog' = <<>> /\ running' = 0 /\ born' = now
    /\ seen' = {}
    /\ Mark("start_timer")
    /\ UNCHANGED <<given, inner, now, fins, threadVars, spc, snap, nSnaps, snapClean, snapTotal, out,
                   famVars, serVars>>

Pause ==
    /\ tstate = "live"
    /\ timer' = pause(timer, now)
    /\ seen' = IF timer.start = None THEN seen \cup {"pause while paused"} ELSE seen
    /\ Mark("pause")
    /\ UNCHANGED <<given, inner, now, tstate, nTimers, ret, tlog, fins, running, born,
                   threadVars, spc, snap, nSnaps, snapClean, snapTotal, out, famVars, serVars>>

Resume ==
    /\ tstate = "live"
    /\ timer' = resume(timer, now)
    /\ seen' = IF timer.start # None /\ timer.start # Some(now)
               THEN seen \cup {"resume while running"} ELSE seen
    /\ Mark("resume")
    /\ UNCHANGED <<given, inner, now, tstate, nTimers, ret, tlog, fins, running, born,
                   threadVars, spc, snap, nSnaps, snapClean, snapTotal, out, famVars, serVars>>

\* The timer value ends with result r of the finalizing operation op.
Finish(op, r) ==
    /\ timer' = r.timer
    /\ inner' = r.inner
    /\ tlog' = tlog \o r.log
    /\ tstate' = "gone"
    /\ fins' = Append(fins, op)
    /\ Mark(op)
    /\ UNCHANGED <<given, now, nTimers, running, born, threadVars, snapVars, famVars, serVars>>

StopAndRecord ==
    /\ tstate = "live"
    /\ LET r == stop_and_record(timer, inner, now)
       IN  Finish("stop_and_record", r) /\ ret' = Some(r.elapsed)

StopAndDiscard ==
    /\ tstate = "live"
    /\ LET r == stop_and_discard(timer, inner, now)
       IN  Finish("stop_and_discard", r) /\ ret' = Some(r.elapsed)

\* The timer value goes out of scope without a stop call.
DropTimer ==
    /\ tstate = "live"
    /\ Finish("drop", drop(timer, inner, now)) /\ ret' = ret

\* Time passes.
TickClock ==
    /\ now < MaxTicks * Tick
    /\ now' = now + Tick
    /\ running' = IF tstate = "live" /\ timer.start # None THEN running + Tick ELSE running
    /\ UNCHANGED <<given, inner, timer, tstate, nTimers, ret, tlog, fins, born,
                   threadVars, snapVars, lastOp, pre, famVars, serVars>>

Next ==
    \/ StartTimer \/ Pause \/ Resume
    \/ StopAndRecord \/ StopAndDiscard \/ DropTimer
    \/ TickClock

Spec == Init /\ [][Next]_vars

\* Instant::now() gives an earlier reading than before, which a platform
\* fault can bring about: once in the life of a timer at most, while the
\* timer has a running_start stored.
ClockBack ==
    /\ tstate = "live"
    /\ timer.start # None
    /\ "clock back" \notin seen
    /\ now >= Tick
    /\ now' = now - Tick
    /\ seen' = seen \cup {"clock back"}
    /\ UNCHANGED <<given, inner, timer, tstate, nTimers, ret, tlog, fins, running, born,
                   threadVars, spc, snap, nSnaps, snapClean, snapTotal, out,
                   lastOp, pre, famVars, serVars>>

\* The timer, paused, resumed and stopped under a clock that may step back.
InitBack == Init /\ given = <<F64_0_25, F64_1_0>>

NextBack ==
    \/ StartTimer \/ Pause \/ Resume
    \/ StopAndRecord \/ StopAndDiscard
    \/ TickClock \/ ClockBack

SpecBack == InitBack /\ [][NextBack]_vars

\* ------------------------------------- actions of the observer threads
AllIdle == \A t \in Threads : pc[t] = "idle"

\* Thread t moves on to place.
Step(t, place) ==
    /\ pc' = [pc EXCEPT ![t] = place]
    /\ snapClean' = (snapClean /\ spc = "idle")
    /\ UNCHANGED <<given, timerVars, spc, snap, nSnaps, snapTotal, out, seen, lastOp, pre, famVars, serVars>>

\* Thread t calls observe(v), the call being one of at most limit.
Call(t, v, limit) ==
    /\ pc[t] = "idle"
    /\ started < limit
    /\ arg' = [arg EXCEPT ![t] = v]
    /\ started' = started + 1
    /\ total' = AddBytes(total, v)
    /\ Step(t, "sum")
    /\ UNCHANGED <<inner, completed>>

\* self.inner.sum.fetch_add(v, Ordering::Relaxed)
FetchAddSum(t) ==
    /\ pc[t] = "sum"
    /\ inner' = add_sum(inner, arg[t])
    /\ Step(t, "count")
    /\ UNCHANGED <<arg, started, completed, total>>

\* self.inner.count.fetch_add(1, Ordering::Relaxed)
FetchAddCount(t) ==
    /\ pc[t] = "count"
    /\ inner' = add_count(inner)
    /\ Step(t, "bucket")
    /\ UNCHANGED <<arg, started, completed, total>>

\* The search of the first bucket (over the bounds, which never change), the
\* fetch_add on its counter, and the return.
FetchAddBucket(t) ==
    /\ pc[t] = "bucket"
    /\ inner' = add_bucket(inner, arg[t])
    /\ completed' = completed + 1
    /\ Step(t, "idle")
    /\ UNCHANGED <<arg, started, total>>

\* --------------------------------------------------- TimeHistogram::get
\* The total of the counters of a sequence of <<upper_bound, value>>.
RECURSIVE BucketTotal(_)
BucketTotal(b) ==
    IF b = <<>> THEN <<>> ELSE AddBytes(b[Len(b)][2], BucketTotal(SubSeq(b, 1, Len(b) - 1)))

\* The three kinds of load of get().
load_sum(h) == seconds(h.sum)
load_count(h) == h.count

\* Variant of the bucket load that returns the cumulative count.
load_bucket_cumulative(h, i) == <<h.buckets[i][1], BucketTotal(SubSeq(h.buckets, 1, i))>>
load_bucket(h, i) == <<h.buckets[i][1], h.buckets[i][2]>>

\* What a returned snapshot shows.
Kinds(s, clean) ==
    (IF clean THEN {"clean"} ELSE {})
    \cup (IF s.count[1] # BucketTotal(s.buckets) /\ GeBytes(s.count[1], BucketTotal(s.buckets))
          THEN {"count above buckets"} ELSE {})
    \cup (IF s.count[1] # BucketTotal(s.buckets) /\ GeBytes(BucketTotal(s.buckets), s.count[1])
          THEN {"count below buckets"} ELSE {})
    \cup (IF s.sum = Some(seconds(<<>>)) /\ s.count[1] # <<>>
          THEN {"sum behind count"} ELSE {})

\* --------------------------------------------------------- exposition
\* One sample line: the suffix of the metric name, the bucket bound (le), the
\* value, and no exemplar.
Sample(suffix, bucket, value) ==
    [suffix |-> suffix, bucket |-> bucket, value |-> value, exemplar |-> None]

RECURSIVE encode_buckets_each(_, _, _)
\* Variant of the loop that writes each bucket's own count.
encode_buckets_each(buckets, i, cummulative) ==
    IF i > Len(buckets) THEN <<>>
    ELSE <<Sample("bucket", Some(buckets[i][1]), buckets[i][2])>>
         \o encode_buckets_each(buckets, i + 1, cummulative)

RECURSIVE encode_buckets(_, _, _)
\* The loop of encode_histogram_with_maybe_exemplars from bucket i on, entered
\* with the running total cummulative (`cummulative += count` on u64: the sum
\* below 2^64, where a release build wraps and a debug build panics).
encode_buckets(buckets, i, cummulative) ==
    IF i > Len(buckets) THEN <<>>
    ELSE LET c == fetch_add(cummulative, buckets[i][2])
         IN  <<Sample("bucket", Some(buckets[i][1]), c)>>
             \o encode_buckets(buckets, i + 1, c)

\* encode_histogram_with_maybe_exemplars with no exemplars: the samples written.
encode_histogram_with_maybe_exemplars(sum, count, buckets) ==
    <<Sample("sum", None, sum), Sample("count", None, count)>>
    \o encode_buckets(buckets, 1, <<>>)

\* impl EncodeMetric for TimeHistogram: encode, on the snapshot s of get().
encode(s) == encode_histogram_with_maybe_exemplars(s.sum[1], s.count[1], s.buckets)

SnapStep == UNCHANGED <<inner, given, timerVars, threadVars, lastOp, pre, famVars, serVars>>

\* let sum = seconds(self.inner.sum.load(Ordering::Relaxed));
GetSum ==
    /\ spc = "idle"
    /\ nSnaps < MaxSnaps
    /\ snap' = [sum |-> Some(load_sum(inner)), count |-> None, buckets |-> <<>>]
    /\ spc' = "count"
    /\ nSnaps' = nSnaps + 1
    /\ snapClean' = AllIdle
    /\ snapTotal' = total
    /\ out' = <<>>
    /\ SnapStep
    /\ UNCHANGED seen

\* let count = self.inner.count.load(Ordering::Relaxed);
GetCount ==
    /\ spc = "count"
    /\ snap' = [snap EXCEPT !.count = Some(load_count(inner))]
    /\ spc' = "buckets"
    /\ SnapStep
    /\ UNCHANGED <<nSnaps, snapClean, snapTotal, out, seen>>

\* One step of the map over the buckets; after the last one get() returns and
\* EncodeMetric::encode hands the snapshot to the encoding, which touches no
\* shared state.
GetBucket ==
    /\ spc = "buckets"
    /\ LET i    == Len(snap.buckets) + 1
           s    == [snap EXCEPT !.buckets = Append(@, load_bucket(inner, i))]
           last == i = Len(inner.buckets)
       IN  /\ snap' = s
           /\ spc' = IF last THEN "idle" ELSE "buckets"
           /\ seen' = IF last THEN seen \cup Kinds(s, snapClean) ELSE seen
           /\ out' = IF last THEN encode(s) ELSE out
    /\ SnapStep
    /\ UNCHANGED <<nSnaps, snapClean, snapTotal>>

\* A new histogram with bounds out of configs, no timer, nothing in progress.
InitWith(configs) ==
    /\ \E b \in configs : given = b /\ inner = new(b)
    /\ NoTimers
    /\ Idle
    /\ NoFamily
    /\ NoSer
    /\ lastOp = "new"
    /\ pre = [timer |-> NoTimer, inner |-> inner, now |-> 0]

\* Threads that observe.
InitHist == InitWith(BucketConfigs)

NextHist ==
    \/ \E t \in Threads : \E v \in Values : Call(t, v, MaxCalls)
    \/ \E t \in Threads : FetchAddSum(t)
    \/ \E t \in Threads : FetchAddCount(t)
    \/ \E t \in Threads : FetchAddBucket(t)

SpecHist == InitHist /\ [][NextHist]_vars

\* Threads that observe while another takes snapshots.
InitSnap == InitWith(SnapConfigs)

NextSnap ==
    \/ \E t \in Threads : \E v \in SnapValues : Call(t, v, SnapCalls)
    \/ \E t \in Threads : FetchAddSum(t)
    \/ \E t \in Threads : FetchAddCount(t)
    \/ \E t \in Threads : FetchAddBucket(t)
    \/ GetSum \/ GetCount \/ GetBucket

SpecSnap == InitSnap /\ [][NextSnap]_vars


\* ================================================================= Family
\* The label sets the callers use.
FLabels == {"a", "b"}

\* ------------------------------------------------- parking_lot::RwLock
\* The lock is [writer, readers]: writer is the WRITER_BIT, which a writer
\* takes first and then holds while it waits for the readers to leave; readers
\* counts the read guards alive.  read() admits no reader while the bit is set.
\* Variant of the admission of a reader that wants the lock to itself.
can_lock_shared_alone(k) == ~k.writer /\ k.readers = 0
can_lock_shared(k) == ~k.writer
lock_shared(k) == [k EXCEPT !.readers = @ + 1]
\* Variant of the end of a read guard that takes every reader out of the count.
unlock_shared_all(k) == [k EXCEPT !.readers = 0]
unlock_shared(k) == [k EXCEPT !.readers = @ - 1]

\* write(), first step: take the WRITER_BIT when no writer has it.
can_take_writer(k) == ~k.writer
take_writer(k) == [k EXCEPT !.writer = TRUE]
\* Variant of the second step that does not wait for the readers.
readers_ignored(k) == TRUE
\* Variant of the second step that lets one reader stay on.
readers_gone_but_one(k) == k.readers <= 1
\* write(), second step: wait until every reader has left.
readers_gone(k) == k.readers = 0
unlock_exclusive(k) == [k EXCEPT !.writer = FALSE]
\* Variant of the downgrade that gives up the write lock and takes no read lock.
downgrade_unlocked(k) == [writer |-> FALSE, readers |-> k.readers]
\* RwLockWriteGuard::downgrade: the writer becomes a reader, atomically.
downgrade(k) == [writer |-> FALSE, readers |-> k.readers + 1]

\* ---------------------------------------------------------- the HashMap
\* self.constructor.new_metric(): instance number id, in its initial state.
new_metric(id) == [id |-> id, val |-> 0]

\* Counter::inc through a reference.
inc(m) == [m EXCEPT !.val = @ + 1]

\* Variant of get that hands out a metric in its initial state.
map_get_reset(m, l) == IF l \in DOMAIN m THEN Some(new_metric(m[l].id)) ELSE None
\* map.get(label_set)
map_get(m, l) == IF l \in DOMAIN m THEN Some(m[l]) ELSE None

\* Variant of the insertion that does not look for an entry first.
insert_always(m, l, id) ==
    [k \in DOMAIN m \cup {l} |-> IF k = l THEN new_metric(id) ELSE m[k]]
\* map.entry(label_set.clone()).or_insert_with(|| self.constructor.new_metric()),
\* id being the number of the instance the constructor would make.
or_insert_with(m, l, id) ==
    IF l \in DOMAIN m THEN m
    ELSE [k \in DOMAIN m \cup {l} |-> IF k = l THEN new_metric(id) ELSE m[k]]

\* Variant of remove that takes every entry away.
map_remove_all(m, l) == [map |-> EmptyMap, old |-> map_get(m, l)]
\* Variant of remove that leaves the entry in the map.
map_remove_keeps(m, l) == [map |-> m, old |-> map_get(m, l)]
\* HashMap::remove: the map afterwards and the value taken out.
map_remove(m, l) == [map |-> [k \in DOMAIN m \ {l} |-> m[k]], old |-> map_get(m, l)]

\* Variant of clear that leaves the entries of label sets other than "a".
map_clear_some(m) == [k \in DOMAIN m \ {"a"} |-> m[k]]
\* HashMap::clear
map_clear(m) == EmptyMap

\* The orders in which an iteration may visit the keys S of a HashMap.
Orders(S) ==
    {o \in [1..Cardinality(S) -> S] : \A i, j \in 1..Cardinality(S) : o[i] = o[j] => i = j}

\* Family::encode, the loop: one sample per entry, in the order o.
family_encode(m, o) == [i \in 1..Len(o) |-> [labels |-> o[i], value |-> m[o[i]].val]]

\* Variant of the end of the `if let` that keeps the guard of the failed lookup.
miss_guard_kept(k) == k
\* The Err(guard) of the failed try_map is dropped at the end of the `if let`.
miss_guard(k) == unlock_shared(k)

\* ------------------------------------------------- actions on the Family
Holding(t) == refs[t] # <<>>

\* Thread t moves on to place in its method.
FamStep(t, place) ==
    /\ fpc' = [fpc EXCEPT ![t] = place]
    /\ UNCHANGED <<histVars, serVars>>

\* Thread t calls a method with label set l, which begins at place.
CallFamily(t, place, l) ==
    /\ fpc[t] = "idle"
    /\ nCalls < MaxFamilyCalls
    /\ nCalls' = nCalls + 1
    /\ fcall' = [fcall EXCEPT ![t] = l]
    /\ fret' = [fret EXCEPT ![t] = NoReturn]
    /\ FamStep(t, place)
    /\ UNCHANGED <<metrics, lock, refs, nextId, nIncs, expect, gone, cleared, seen>>

CallGetOrCreate(t, l) ==
    /\ Len(refs[t]) < MaxHeld
    /\ CallFamily(t, "goc_read", l)

CallRemove(t, l) == CallFamily(t, "rm_write", l)

CallClear(t) == CallFamily(t, "cl_write", "")

CallEncode(t) == CallFamily(t, "enc_read", "")

\* get_or_create returns to thread t a reference to the entry m of label set
\* l; via tells how: "hit" by the read-locked lookup, "insert" of a new
\* instance, or "found" in the map by an insertion that came too late.
Return(t, l, m, via) ==
    /\ refs' = [refs EXCEPT ![t] =
                  Append(@, [label |-> l, id |-> m.id, val |-> m.val, via |-> via])]
    /\ expect' = IF l \in DOMAIN expect THEN expect
                 ELSE [k \in DOMAIN expect \cup {l} |->
                         IF k = l THEN [id |-> m.id, val |-> 0] ELSE expect[k]]
    /\ cleared' = FALSE
    /\ FamStep(t, "idle")

\* RwLockReadGuard::try_map(self.metrics.read(), |map| map.get(label_set)):
\* the read lock, the lookup, and on a hit the return.
GocRead(t) ==
    /\ fpc[t] = "goc_read"
    /\ can_lock_shared(lock)
    /\ lock' = lock_shared(lock)
    /\ LET m == map_get(metrics, fcall[t])
       IN  IF m # None
           THEN Return(t, fcall[t], m[1], "hit")
           ELSE FamStep(t, "goc_miss") /\ UNCHANGED <<refs, expect, cleared>>
    /\ UNCHANGED <<metrics, fcall, fret, nextId, nCalls, nIncs, gone, seen>>

\* The guard of the failed lookup goes.
GocMiss(t) ==
    /\ fpc[t] = "goc_miss"
    /\ lock' = miss_guard(lock)
    /\ FamStep(t, "goc_write")
    /\ UNCHANGED <<metrics, fcall, refs, fret, nextId, nCalls, nIncs, expect, gone, cleared, seen>>

\* self.metrics.write(), first step, in get_or_create, remove and clear.
WriteLock(t) ==
    /\ fpc[t] \in {"goc_write", "rm_write", "cl_write"}
    /\ can_take_writer(lock)
    /\ lock' = take_writer(lock)
    /\ FamStep(t, CASE fpc[t] = "goc_write" -> "goc_drain"
                    [] fpc[t] = "rm_write" -> "rm_drain"
                    [] fpc[t] = "cl_write" -> "cl_drain")
    /\ UNCHANGED <<metrics, fcall, refs, fret, nextId, nCalls, nIncs, expect, gone, cleared, seen>>

\* write() returns once the readers have left; then, the lock held
\* exclusively, the insertion, and the downgrade that ends the write guard.
\* What entry() found is kept for the return.
GocInsert(t) ==
    /\ fpc[t] = "goc_drain"
    /\ readers_gone(lock)
    /\ LET l == fcall[t]
           m == or_insert_with(metrics, l, nextId)
       IN  /\ metrics' = m
           /\ nextId' = IF m[l].id = nextId THEN nextId + 1 ELSE nextId
           /\ fret' = [fret EXCEPT ![t] = [op |-> "entry", present |-> l \in DOMAIN metrics,
                                           out |-> <<>>, cleared |-> FALSE]]
    /\ lock' = downgrade(lock)
    /\ cleared' = FALSE
    /\ FamStep(t, "goc_get")
    /\ UNCHANGED <<fcall, refs, nCalls, nIncs, expect, gone, seen>>

\* RwLockReadGuard::map(map_read, |map| map.get(label_set).expect(..)): the
\* lookup under the read lock the downgrade left, and the return; on a
\* missing entry the panic, whose unwinding drops the guard.
GocGet(t) ==
    /\ fpc[t] = "goc_get"
    /\ LET m == map_get(metrics, fcall[t])
       IN  IF m # None
           THEN /\ Return(t, fcall[t], m[1], IF fret[t].present THEN "found" ELSE "insert")
                /\ lock' = lock
           ELSE /\ FamStep(t, "panicked")
                /\ lock' = unlock_shared(lock)
                /\ UNCHANGED <<refs, expect, cleared>>
    /\ UNCHANGED <<metrics, fcall, fret, nextId, nCalls, nIncs, gone, seen>>

\* self.metrics.write().remove(label_set).is_some()
RemoveCommit(t) ==
    /\ fpc[t] = "rm_drain"
    /\ readers_gone(lock)
    /\ LET l == fcall[t]
           r == map_remove(metrics, l)
       IN  /\ metrics' = r.map
           /\ fret' = [fret EXCEPT ![t] = [op |-> "remove", present |-> r.old # None,
                                           out |-> <<>>, cleared |-> FALSE]]
           /\ expect' = [k \in DOMAIN expect \ {l} |-> expect[k]]
           /\ gone' = IF l \in DOMAIN expect
                      THEN [k \in DOMAIN gone \cup {l} |-> IF k = l THEN expect[l] ELSE gone[k]]
                      ELSE gone
    /\ lock' = unlock_exclusive(lock)
    /\ FamStep(t, "idle")
    /\ UNCHANGED <<fcall, refs, nextId, nCalls, nIncs, cleared, seen>>

\* self.metrics.write().clear()
ClearCommit(t) ==
    /\ fpc[t] = "cl_drain"
    /\ readers_gone(lock)
    /\ metrics' = map_clear(metrics)
    /\ fret' = [fret EXCEPT ![t] = [op |-> "clear", present |-> FALSE,
                                    out |-> <<>>, cleared |-> FALSE]]
    /\ expect' = EmptyMap
    /\ cleared' = TRUE
    /\ lock' = unlock_exclusive(lock)
    /\ FamStep(t, "idle")
    /\ UNCHANGED <<fcall, refs, nextId, nCalls, nIncs, gone, seen>>

\* let map_read = self.metrics.read();
EncRead(t) ==
    /\ fpc[t] = "enc_read"
    /\ can_lock_shared(lock)
    /\ lock' = lock_shared(lock)
    /\ FamStep(t, "enc_iter")
    /\ UNCHANGED <<metrics, fcall, refs, fret, nextId, nCalls, nIncs, expect, gone, cleared, seen>>

\* The loop over the map in some order of its keys, and the end of map_read.
EncIter(t) ==
    /\ fpc[t] = "enc_iter"
    /\ \E o \in Orders(DOMAIN metrics) :
         fret' = [fret EXCEPT ![t] = [op |-> "encode", present |-> FALSE,
                                      out |-> family_encode(metrics, o),
                                      cleared |-> cleared]]
    /\ lock' = unlock_shared(lock)
    /\ FamStep(t, "idle")
    /\ UNCHANGED <<metrics, fcall, refs, nextId, nCalls, nIncs, expect, gone, cleared, seen>>

\* Thread t increments a metric through a reference it holds.
Inc(t) ==
    /\ fpc[t] = "idle"
    /\ nIncs < MaxIncs
    /\ \E i \in 1..Len(refs[t]) :
         LET l == refs[t][i].label
         IN  /\ l \in DOMAIN metrics
             /\ metrics' = [metrics EXCEPT ![l] = inc(@)]
             /\ expect' = IF l \in DOMAIN expect
                          THEN [expect EXCEPT ![l].val = @ + 1] ELSE expect
    /\ nIncs' = nIncs + 1
    /\ FamStep(t, "idle")
    /\ UNCHANGED <<lock, fcall, refs, fret, nextId, nCalls, gone, cleared, seen>>

\* Thread t drops the reference it took last.
DropRef(t) ==
    /\ fpc[t] = "idle"
    /\ Holding(t)
    /\ refs' = [refs EXCEPT ![t] = SubSeq(@, 1, Len(@) - 1)]
    /\ lock' = unlock_shared(lock)
    /\ FamStep(t, "idle")
    /\ UNCHANGED <<metrics, fcall, fret, nextId, nCalls, nIncs, expect, gone, cleared, seen>>

\* A step of a thread inside a method, or with a reference in hand.
Progress(t) ==
    \/ GocRead(t) \/ GocMiss(t) \/ WriteLock(t) \/ GocInsert(t) \/ GocGet(t)
    \/ RemoveCommit(t) \/ ClearCommit(t)
    \/ EncRead(t) \/ EncIter(t)
    \/ DropRef(t)

\* An empty Family; the histogram plays no part.
InitFamily == InitWith({<<>>})

NextFamily ==
    \/ \E t \in Threads : \E l \in FLabels : CallGetOrCreate(t, l)
    \/ \E t \in Threads : \E l \in FLabels : CallRemove(t, l)
    \/ \E t \in Threads : CallClear(t)
    \/ \E t \in Threads : CallEncode(t)
    \/ \E t \in Threads : GocRead(t)
    \/ \E t \in Threads : GocMiss(t)
    \/ \E t \in Threads : WriteLock(t)
    \/ \E t \in Threads : GocInsert(t)
    \/ \E t \in Threads : GocGet(t)
    \/ \E t \in Threads : RemoveCommit(t)
    \/ \E t \in Threads : ClearCommit(t)
    \/ \E t \in Threads : EncRead(t)
    \/ \E t \in Threads : EncIter(t)
    \/ \E t \in Threads : Inc(t)
    \/ \E t \in Threads : DropRef(t)

SpecFamily == InitFamily /\ [][NextFamily]_vars

\* ============================================================= serializer
\* The three characters the escaping looks for.
Quote == "\""
Backslash == "\\"
Newline == "\n"

\* The values of the serde data model, Val(kind, ...) above: a string, char,
\* unit struct or unit variant (its name); an integer of up to 64 bits ("int")
\* or of 128 ("i128"), a float or a bool; a Some, newtype
\* struct or newtype variant of a value; a struct of fields.
Text(kind, text) == Val(kind, text, 0, <<>>, <<>>)
Num(kind, n) == Val(kind, <<>>, n, <<>>, <<>>)
Wrap(kind, v) == Val(kind, <<>>, 0, <<v>>, <<>>)
StructV(fields) == Val("struct", <<>>, 0, <<>>, fields)

\* One field of a struct.
Field(key, value) == [key |-> key, value |-> value]

\* ---------------------------------------------------------------- Writer
\* A Result<(), Error> together with the writer as the call leaves it.
Ok(w) == [w |-> w, err |-> "none"]
Err(w, e) == [w |-> w, err |-> e]

\* Writer::write_str: write_all on the io::Write underneath, here one that
\* takes w.left more characters (any number when Unlimited), as a slice does:
\* what fits is written, and the write fails when not all of s fits.
write_str(w, s) ==
    IF w.left = Unlimited THEN Ok([w EXCEPT !.buf = @ \o s])
    ELSE IF Len(s) <= w.left THEN Ok([buf |-> w.buf \o s, left |-> w.left - Len(s)])
    ELSE Err([buf |-> w.buf \o SubSeq(s, 1, w.left), left |-> 0], "io")

\* ----------------------------------------------------- the value-level pass
\* Variant of the pattern without the backslash.
PATTERN_without_backslash == {Quote, Newline}
\* PATTERN of write_escaped.
PATTERN == {Quote, Backslash, Newline}

\* Variant of take_until_match whose chunk ends after the character found.
take_until_match_inclusive(chars, s) ==
    IF \A i \in 1..Len(s) : s[i] \notin chars THEN None
    ELSE LET chunk_end == CHOOSE i \in 1..Len(s) :
                            s[i] \in chars /\ \A j \in 1..(i - 1) : s[j] \notin chars
         IN  Some([chunk |-> SubSeq(s, 1, chunk_end),
                   found |-> s[chunk_end],
                   rest  |-> SubSeq(s, chunk_end + 1, Len(s))])
\* AsciiPattern::take_until_match: the text before the first character of
\* the pattern, that character, and the rest; None when there is none.
take_until_match(chars, s) ==
    IF \A i \in 1..Len(s) : s[i] \notin chars THEN None
    ELSE LET chunk_end == CHOOSE i \in 1..Len(s) :
                            s[i] \in chars /\ \A j \in 1..(i - 1) : s[j] \notin chars
         IN  Some([chunk |-> SubSeq(s, 1, chunk_end - 1),
                   found |-> s[chunk_end],
                   rest  |-> SubSeq(s, chunk_end + 1, Len(s))])

RECURSIVE write_escaped(_, _)
\* write_escaped: the loop over the matches, then the rest of the text.
write_escaped(w, s) ==
    LET m == take_until_match(PATTERN, s)
    IN  IF m = None THEN write_str(w, s)
        ELSE LET a == write_str(w, m[1].chunk)
                 b == write_str(a.w, IF m[1].found = Newline
                                     THEN <<Backslash, "n">>
                                     ELSE <<Backslash, m[1].found>>)
             IN  IF a.err # "none" THEN a
                 ELSE IF b.err # "none" THEN b
                 ELSE write_escaped(b.w, m[1].rest)

RECURSIVE itoa_digits(_)
itoa_digits(n) ==
    LET digit(d) == <<"0", "1", "2", "3", "4", "5", "6", "7", "8", "9">>[d + 1]
    IN  IF n < 10 THEN <<digit(n)>>
        ELSE itoa_digits(n \div 10) \o <<digit(n % 10)>>

\* itoa::Buffer::format: the decimal digits, a minus sign before them if any.
itoa(n) == IF n < 0 THEN <<"-">> \o itoa_digits(0 - n) ELSE itoa_digits(n)

\* ValueSerializer::write_unchecked
write_unchecked(w, raw) == write_str(w, raw)

\* ValueSerializer::serialize_integer
serialize_integer(w, n) == write_unchecked(w, itoa(n))

\* ValueSerializer::serialize_floating, on the float of the small whole
\* number n, for which ryu::Buffer::format gives the digits and ".0".
serialize_floating(w, n) == write_unchecked(w, itoa(n) \o <<".", "0">>)

\* ValueSerializer::serialize_bool
serialize_bool(w, v) ==
    write_unchecked(w, IF v = 1 THEN <<"t", "r", "u", "e">> ELSE <<"f", "a", "l", "s", "e">>)

\* ValueSerializer::serialize_char
serialize_char(w, v) ==
    write_unchecked(w, CASE v = Quote -> <<Backslash, Quote>>
                         [] v = Backslash -> <<Backslash, Backslash>>
                         [] v = Newline -> <<Backslash, "n">>
                         [] OTHER -> <<v>>)

\* Variant of serialize_str that writes the text as it is.
serialize_str_unescaped(w, value) == write_unchecked(w, value)
\* ValueSerializer::serialize_str
serialize_str(w, value) == write_escaped(w, value)

\* Variant of serialize_unit_struct that writes nothing, as serialize_unit.
serialize_unit_struct_nothing(w, name) == Ok(w)
\* ValueSerializer::serialize_unit_struct, which delegate! hands to
\* serialize_str with the name of the struct.
serialize_unit_struct(w, name) == serialize_str(w, name)

RECURSIVE Concat(_)
\* The text the fragments make.
Concat(frags) == IF frags = <<>> THEN <<>> ELSE Head(frags) \o Concat(Tail(frags))

\* Variant of collect_str whose adapter escapes the first fragment only.
collect_str_first(w, frags) ==
    IF frags = <<>> THEN Ok(w)
    ELSE LET r == write_escaped(w, Head(frags))
         IN  IF r.err # "none" THEN r ELSE write_str(r.w, Concat(Tail(frags)))
RECURSIVE collect_str(_, _)
\* ValueSerializer::collect_str: fmt::write hands the fragments frags that the
\* value's Display writes to Adapter::write_str one after another, each going
\* through write_escaped; the first error ends it and is returned.
collect_str(w, frags) ==
    IF frags = <<>> THEN Ok(w)
    ELSE LET r == write_escaped(w, Head(frags))
         IN  IF r.err # "none" THEN r ELSE collect_str(r.w, Tail(frags))

RECURSIVE value_serialize(_, _)
\* value.serialize(value::serializer(writer)): the method of ValueSerializer
\* that the value's Serialize calls; the last kinds are those answered with
\* Err(self.unexpected(..)).
value_serialize(w, v) ==
    CASE v.kind = "bool" -> serialize_bool(w, v.num)
      [] v.kind \in {"int", "i128"} -> serialize_integer(w, v.num)
      [] v.kind = "f64" -> serialize_floating(w, v.num)
      [] v.kind = "char" -> serialize_char(w, v.text[1])
      [] v.kind = "str" -> serialize_str(w, v.text)
      [] v.kind = "unit_struct" -> serialize_unit_struct(w, v.text)
      [] v.kind = "unit_variant" -> serialize_str(w, v.text)
      [] v.kind = "display" -> collect_str(w, v.fields)
      [] v.kind \in {"unit", "none"} -> Ok(w)
      [] v.kind \in {"some", "newtype_struct"} -> value_serialize(w, v.of[1])
      [] v.kind \in {"bytes", "newtype_variant", "seq", "tuple", "tuple_struct",
                     "tuple_variant", "map", "struct", "struct_variant"} ->
             Err(w, "unexpected")

\* ------------------------------------------------------- the top-level pass
AsciiAlphabetic ==
    {"a", "b", "c", "d", "e", "f", "g", "h", "i", "j", "k", "l", "m",
     "n", "o", "p", "q", "r", "s", "t", "u", "v", "w", "x", "y", "z",
     "A", "B", "C", "D", "E", "F", "G", "H", "I", "J", "K", "L", "M",
     "N", "O", "P", "Q", "R", "S", "T", "U", "V", "W", "X", "Y", "Z"}
AsciiDigit == {"0", "1", "2", "3", "4", "5", "6", "7", "8", "9"}

\* Variant of check_key that asks of the first character what it asks of the
\* later ones.
check_key_alphanumeric(key) ==
    /\ key # <<>>
    /\ \A i \in 1..Len(key) : key[i] \in AsciiAlphabetic \cup AsciiDigit \cup {"_", ":"}
\* check_key: TRUE for Ok(()), FALSE for Err(invalid_key(key)).
check_key(key) ==
    /\ key # <<>>
    /\ key[1] \in AsciiAlphabetic \cup {"_", ":"}
    /\ \A i \in 2..Len(key) : key[i] \in AsciiAlphabetic \cup AsciiDigit \cup {"_", ":"}

\* What TopSerializer does with a value: begins a struct, returns Ok(())
\* having written nothing, or returns Err(unsupported(..)).  It has no
\* serialize_i128 and no serialize_u128 (the scalars it names end at 64 bits),
\* so for those serde's provided methods run, which return
\* Err(Error::custom("i128 is not supported")).  It has no collect_str either:
\* the provided one hands the displayed text to serialize_str.
RECURSIVE top_serialize(_)
top_serialize(v) ==
    CASE v.kind = "struct" -> [err |-> "none", struct |-> TRUE, fields |-> v.fields]
      [] v.kind \in {"unit", "unit_struct", "none"} ->
             [err |-> "none", struct |-> FALSE, fields |-> <<>>]
      [] v.kind \in {"some", "newtype_struct"} -> top_serialize(v.of[1])
      [] v.kind \in {"bool", "int", "f64", "char", "str", "display", "bytes",
                     "unit_variant", "newtype_variant", "seq", "tuple", "tuple_struct",
                     "tuple_variant", "map", "struct_variant"} ->
             [err |-> "unsupported", struct |-> FALSE, fields |-> <<>>]
      [] v.kind = "i128" -> [err |-> "not supported", struct |-> FALSE, fields |-> <<>>]

\* Variant of serialize_field that writes the comma without the closing quote.
serialize_field_comma(ss, key, value) ==
    IF ~check_key(key) THEN [has |-> ss.has, w |-> ss.w, err |-> "invalid key"]
    ELSE LET a == IF ss.has THEN write_str(ss.w, <<",">>) ELSE Ok(ss.w)
             b == write_str(a.w, key)
             c == write_str(b.w, <<"=", Quote>>)
             d == value_serialize(c.w, value)
             r == IF a.err # "none" THEN a
                  ELSE IF b.err # "none" THEN b
                  ELSE IF c.err # "none" THEN c
                  ELSE d
         IN  [has |-> TRUE, w |-> r.w, err |-> r.err]
\* StructSerializer::serialize_field on ss = [has, w], has_written_anything
\* and the writer: the StructSerializer afterwards and the Result.
serialize_field(ss, key, value) ==
    IF ~check_key(key) THEN [has |-> ss.has, w |-> ss.w, err |-> "invalid key"]
    ELSE LET a == IF ss.has THEN write_str(ss.w, <<Quote, ",">>) ELSE Ok(ss.w)
             b == write_str(a.w, key)
             c == write_str(b.w, <<"=", Quote>>)
             d == value_serialize(c.w, value)
             r == IF a.err # "none" THEN a
                  ELSE IF b.err # "none" THEN b
                  ELSE IF c.err # "none" THEN c
                  ELSE d
         IN  [has |-> TRUE, w |-> r.w, err |-> r.err]

\* StructSerializer::end
end(ss) == IF ss.has THEN write_str(ss.w, <<Quote>>) ELSE Ok(ss.w)

\* ------------------------------------------------------------------ inputs
\* The fields the label sets are made of: a path, a status, a method, a text
\* with the three special characters, and values of the other kinds.
FieldPool ==
    {Field(<<"p">>, Text("str", <<"/", "f">>)),
     Field(<<"s">>, Num("int", 200)),
     Field(<<"m">>, Text("unit_variant", <<"G", "E", "T">>)),
     Field(<<"q">>, Text("str", <<Quote, "a", Backslash, Newline>>)),
     Field(<<"n">>, Bare("none")),
     Field(<<"o">>, Wrap("some", Text("str", <<"x">>))),
     Field(<<"u">>, Text("unit_struct", <<"U">>)),
     Field(<<"c">>, Text("char", <<Quote>>)),
     Field(<<"t">>, Num("bool", 1)),
     Field(<<"_", "i", ":", "2">>, Num("int", 0 - 7)),
     Field(<<"1", "x">>, Text("str", <<"y">>)),
     Field(<<"b">>, Bare("bytes"))}

\* The structs of at most MaxFields fields.
Structs == {StructV(f) : f \in UNION {[1..n -> FieldPool] : n \in 0..MaxFields}}

\* Keys of every make: letters, a digit, the two signs a key may hold, one it
\* may not, and a character that is not ASCII.
Keys == UNION {[1..n -> {"a", "Z", "0", "_", ":", "-", "é"}] : n \in 0..MaxKeyLen}

\* Strings of every make: the three special characters and two others.
Strings == UNION {[1..n -> {Quote, Backslash, Newline, "a", "n"}] : n \in 0..MaxStrLen}

\* Field values of every kind: the strings, and one or two of each other kind
\* (names may hold any character: #[serde(rename = "..")]).
FieldValues ==
    {Text("str", x) : x \in Strings}
    \cup {Text("char", <<c>>) : c \in {Quote, Backslash, Newline, "a", "é"}}
    \cup {Text(k, x) : k \in {"unit_struct", "unit_variant"},
                       x \in {<<"U">>, <<"a", Quote, Backslash, Newline>>}}
    \cup {Num("bool", 0), Num("bool", 1), Num("int", 0), Num("int", 0 - 120),
          Num("i128", 5), Num("f64", 2)}
    \cup {Bare(k) : k \in {"unit", "none", "bytes", "seq", "tuple", "tuple_struct",
                           "tuple_variant", "map", "struct_variant"}}
    \cup {StructV(<<>>), StructV(<<Field(<<"p">>, Text("str", <<"x">>))>>)}
    \cup {Wrap(k, v) : k \in {"some", "newtype_struct", "newtype_variant"},
                       v \in {Bare("none"), Bare("seq"), Text("str", <<Quote>>)}}

RECURSIVE Splits(_)
\* The ways to cut the text s into fragments that are not empty.
Splits(s) ==
    IF s = <<>> THEN {<<>>}
    ELSE UNION {{<<SubSeq(s, 1, i)>> \o r : r \in Splits(SubSeq(s, i + 1, Len(s)))}
                : i \in 1..Len(s)}

\* The ways a Display may write the text s: in one or several fragments, and
\* with an empty one before and after.
Fragments(s) == Splits(s) \cup {<<<<>>>> \o p \o <<<<>>>> : p \in Splits(s)}

\* The label sets serialized: the structs, some of them wrapped, the structs
\* of one field under each of the keys and with each of the values, and
\* values of the other shapes.
LabelSets ==
    Structs
    \cup {StructV(<<Field(k, Num("int", 1))>>) : k \in Keys}
    \cup {StructV(<<Field(<<"k">>, v)>>) : v \in FieldValues}
    \cup {StructV(<<Field(<<"k">>, Val("display", <<>>, 0, <<>>, fs))>>) :
             fs \in UNION {Fragments(s) : s \in Strings}}
    \cup {Wrap(k, t) : k \in {"some", "newtype_struct"},
                       t \in {u \in Structs : Len(u.fields) <= 1}}
    \cup {Bare("unit"), Bare("none"), Text("unit_struct", <<"U">>),
          Wrap("some", Bare("none")), Wrap("newtype_struct", Bare("unit"))}
    \cup {Num("bool", 1), Num("int", 5), Num("i128", 5), Num("f64", 2),
          Text("char", <<"c">>), Text("str", <<"x">>),
          Val("display", <<>>, 0, <<>>, <<<<"x">>>>),
          Text("unit_variant", <<"G", "E", "T">>), Wrap("newtype_variant", Num("int", 1)),
          Wrap("some", Num("int", 5))}
    \cup {Bare(k) : k \in {"bytes", "seq", "tuple", "tuple_struct", "tuple_variant",
                           "map", "struct_variant"}}

\* ----------------------------------------------- actions of the serializer
\* label_set.serialize(top::serializer(writer)) as far as the method of
\* TopSerializer the value calls.
SerTop ==
    /\ splace = "top"
    /\ LET r == top_serialize(sval)
       IN  IF r.err = "none" /\ r.struct
           THEN /\ splace' = "fields"
                /\ stodo' = r.fields
                /\ shas' = FALSE
                /\ sres' = sres
           ELSE /\ splace' = "done"
                /\ sres' = IF r.err = "none" THEN "ok" ELSE r.err
                /\ UNCHANGED <<stodo, shas>>
    /\ UNCHANGED sw
    /\ UNCHANGED <<histVars, seen, famVars, sval, evisit, eres>>

\* Variant of SerField in which the struct goes on to its next field after
\* an error.
SerFieldGoesOn ==
    /\ splace = "fields"
    /\ stodo # <<>>
    /\ LET r == serialize_field([has |-> shas, w |-> sw], Head(stodo).key, Head(stodo).value)
       IN  /\ sw' = r.w
           /\ shas' = r.has
           /\ stodo' = Tail(stodo)
           /\ sres' = IF r.err = "none" THEN sres ELSE r.err
           /\ UNCHANGED splace
    /\ UNCHANGED <<histVars, seen, famVars, sval, evisit, eres>>

\* The struct's Serialize passes its next field to serialize_field, and
\* returns with the error if there is one (the `?` of the derived code).
SerField ==
    /\ splace = "fields"
    /\ stodo # <<>>
    /\ LET r == serialize_field([has |-> shas, w |-> sw], Head(stodo).key, Head(stodo).value)
       IN  /\ sw' = r.w
           /\ shas' = r.has
           /\ IF r.err = "none"
              THEN stodo' = Tail(stodo) /\ UNCHANGED <<sres, splace>>
              ELSE sres' = r.err /\ splace' = "done" /\ stodo' = stodo
    /\ UNCHANGED <<histVars, seen, famVars, sval, evisit, eres>>

\* After the last field: SerializeStruct::end.
SerEnd ==
    /\ splace = "fields"
    /\ stodo = <<>>
    /\ LET r == end([has |-> shas, w |-> sw])
       IN  /\ sw' = r.w
           /\ sres' = IF r.err = "none" THEN "ok" ELSE r.err
    /\ splace' = "done"
    /\ UNCHANGED <<shas, stodo>>
    /\ UNCHANGED <<histVars, seen, famVars, sval, evisit, eres>>

\* A label set and an empty writer, one that takes everything or one that
\* takes a few characters; the histogram and the Family play no part.
InitSer ==
    /\ given = <<>> /\ inner = new(<<>>)
    /\ NoTimers
    /\ Idle
    /\ NoFamily
    /\ lastOp = "new"
    /\ pre = [timer |-> NoTimer, inner |-> inner, now |-> 0]
    /\ sval \in LabelSets
    /\ \E n \in {Unlimited} \cup 0..MaxLimit : sw = [buf |-> <<>>, left |-> n]
    /\ shas = FALSE /\ stodo = <<>> /\ sres = "none" /\ splace = "top"
    /\ evisit = <<>> /\ eres = "none"

NextSer == SerTop \/ SerField \/ SerEnd

SpecSer == InitSer /\ [][NextSer]_vars

\* -------------------------------------------------------- Family::encode
\* Label sets of a Family that is encoded: one that is written in full, one
\* whose first key is refused, two with a value that is refused before and
\* after another field, and one that encodes to nothing.
EncLabelSets ==
    {StructV(<<Field(<<"p">>, Text("str", <<"/", "f">>)), Field(<<"s">>, Num("int", 200))>>),
     StructV(<<Field(<<"1", "x">>, Text("str", <<"y">>)), Field(<<"s">>, Num("int", 200))>>),
     StructV(<<Field(<<"b">>, Bare("bytes")), Field(<<"p">>, Text("str", <<"/", "f">>))>>),
     StructV(<<Field(<<"p">>, Text("str", <<"/", "f">>)), Field(<<"b">>, Bare("bytes"))>>),
     Bare("unit")}

\* The sets of label sets the Family holds: none, any one label set, or a
\* few of the above.
EncFamilies ==
    {{}} \cup {{l} : l \in LabelSets}
    \cup {S \in SUBSET EncLabelSets : Cardinality(S) \in 2..MaxEntries}

\* The label sets of the entries the loop has not come to yet.
Unvisited == DOMAIN metrics \ {evisit[i] : i \in 1..Len(evisit)}

EncStep == UNCHANGED <<histVars, seen, famVars>>

\* The loop of Family::encode comes to the next entry of the map, in the
\* order of the HashMap, and m.encode(encoder) begins to write its sample:
\* the encoder serializes the label set through Bridge::encode.
EncEntry ==
    /\ eres = "none"
    /\ splace = "idle"
    /\ \E l \in Unvisited :
         /\ evisit' = Append(evisit, l)
         /\ sval' = l
    /\ splace' = "top"
    /\ shas' = FALSE /\ stodo' = <<>> /\ sres' = "none"
    /\ UNCHANGED <<sw, eres>>
    /\ EncStep

\* Bridge::encode has returned: with an error, which `m.encode(encoder)?`
\* returns from Family::encode; or with Ok(()), and the encoder ends the
\* line of the sample, which fails as any write may.
EncSample ==
    /\ eres = "none"
    /\ splace = "done"
    /\ IF sres = "ok"
       THEN LET r == write_str(sw, <<Newline>>)
            IN  /\ sw' = r.w
                /\ eres' = IF r.err = "none" THEN eres ELSE "err"
                /\ splace' = IF r.err = "none" THEN "idle" ELSE splace
       ELSE /\ eres' = "err"
            /\ UNCHANGED <<sw, splace>>
    /\ UNCHANGED <<sval, shas, stodo, sres, evisit>>
    /\ EncStep

\* The loop is over: Ok(()).
EncReturn ==
    /\ eres = "none"
    /\ splace = "idle"
    /\ Unvisited = {}
    /\ eres' = "ok"
    /\ UNCHANGED <<sval, sw, shas, stodo, sres, splace, evisit>>
    /\ EncStep

\* A Family with its entries, inside encode, and an empty writer.
InitEnc ==
    /\ given = <<>> /\ inner = new(<<>>)
    /\ NoTimers
    /\ Idle
    /\ \E S \in EncFamilies : metrics = [l \in S |-> new_metric(0)]
    /\ lock = [writer |-> FALSE, readers |-> 1]
    /\ fpc = [t \in Threads |-> "idle"] /\ fcall = [t \in Threads |-> ""]
    /\ refs = [t \in Threads |-> <<>>] /\ fret = [t \in Threads |-> NoReturn]
    /\ nextId = 0 /\ nCalls = 0 /\ nIncs = 0
    /\ expect = EmptyMap /\ gone = EmptyMap /\ cleared = FALSE
    /\ lastOp = "new"
    /\ pre = [timer |-> NoTimer, inner |-> inner, now |-> 0]
    /\ sval = Bare("unit")
    /\ \E n \in {Unlimited} \cup 0..MaxLimit : sw = [buf |-> <<>>, left |-> n]
    /\ shas = FALSE /\ stodo = <<>> /\ sres = "none" /\ splace = "idle"
    /\ evisit = <<>> /\ eres = "none"

NextEnc == EncEntry \/ SerTop \/ SerField \/ SerEnd \/ EncSample \/ EncReturn

SpecEnc == InitEnc /\ [][NextEnc]_vars

\* ------------------------------------------------------ claims: the timer
\* The number of finished timers that were to record: all but the discarded.
NRecording == Cardinality({i \in 1..Len(fins) : fins[i] # "stop_and_discard"})

\* C1: a timer causes at most one observe() on its histogram over its whole
\* life: exactly one when it ends by stop_and_record() or by being dropped
\* without a stop call, none when it ends by stop_and_discard(); the drop that
\* follows an explicit stop records nothing further, so the histogram's count
\* is the number of timers that ended by stop_and_record() or by drop.
C1_AtMostOneObserve ==
    /\ Len(tlog) <= 1
    /\ tstate = "gone" =>
         Len(tlog) = IF fins[Len(fins)] = "stop_and_discard" THEN 0 ELSE 1
    /\ inner.count = NatToBytes(NRecording)

\* Two timers have ended, one by stop_and_record() after a pause, one by drop.
C1_Witness ==
    /\ tstate = "gone"
    /\ fins = <<"stop_and_record", "drop">>
    /\ inner.count = NatToBytes(2)
    /\ timer.accumulated > 0

\* C2: with a monotonic clock, the duration stop_and_record() returns and
\* records is the total length of the intervals in which the timer was
\* Running; time spent Paused is not counted.
C2_RunningTimeOnly ==
    lastOp = "stop_and_record" =>
        /\ ret = Some(running)
        /\ tlog = <<as_nanos_u64(running)>>

\* The timer lived three ticks, one of them paused, and returned two.
C2_Witness ==
    /\ lastOp = "stop_and_record"
    /\ pre.now - born = 3 * Tick
    /\ timer.accumulated = Tick
    /\ ret = Some(2 * Tick)

\* C3: stop_and_discard(), with the drop of the timer value that ends it,
\* leaves sum, count and every bucket counter of the histogram unchanged.
C3_DiscardLeavesHistogram ==
    lastOp = "stop_and_discard" => inner = pre.inner /\ tlog = <<>>

\* A paused timer with accumulated time is discarded on a histogram that
\* already holds an observation.
C3_Witness ==
    /\ lastOp = "stop_and_discard"
    /\ pre.timer.start = None
    /\ pre.timer.accumulated > 0
    /\ inner.count = One

\* C4: dropping a timer without a stop call changes the histogram as
\* stop_and_record() would at the same clock reading and in the same timer
\* state: the same value is observed, so the same sum, count + 1 and the same
\* bucket increment.
C4_DropIsStopAndRecord ==
    lastOp = "drop" =>
        LET r == stop_and_record(pre.timer, pre.inner, pre.now)
        IN  /\ inner = r.inner
            /\ tlog = r.log
            /\ tlog = <<as_nanos_u64(running)>>
            /\ inner.count = fetch_add(pre.inner.count, One)

\* A running timer with accumulated time from an earlier pause is dropped.
C4_Witness ==
    /\ lastOp = "drop"
    /\ pre.timer.start # None
    /\ pre.timer.accumulated = Tick
    /\ tlog = <<NatToBytes(2 * Tick)>>

\* C5: pause() on a paused timer leaves accumulated and running_start
\* unchanged, and resume() on a running timer leaves running_start unchanged
\* (the running interval is not restarted).
C5_PauseResumeIdempotent ==
    /\ (lastOp = "pause" /\ pre.timer.start = None) => timer = pre.timer
    /\ (lastOp = "resume" /\ pre.timer.start # None) => timer = pre.timer

\* The timer has met a pause() while paused and, just now, a resume() while
\* running at a later clock reading than its running_start.
C5_Witness ==
    /\ seen = {"pause while paused", "resume while running"}
    /\ lastOp = "resume"
    /\ pre.timer.start # None
    /\ pre.timer.start # Some(pre.now)
    /\ timer.accumulated > 0

\* -------------------------------------------------- claims: the histogram
\* C6: whatever the interleaving of the threads' observe() calls, once all
\* calls have returned the count is the number of calls and the bucket
\* counters add up to the count: no increment is lost.
C6_NoLostIncrement ==
    AllIdle =>
        /\ started = completed
        /\ inner.count = NatToBytes(completed)
        /\ BucketTotal(inner.buckets) = inner.count

\* All calls of the bound have returned and went to more than one bucket.
C6_Witness ==
    /\ AllIdle
    /\ completed = 4
    /\ \E i, j \in 1..Len(inner.buckets) :
         i # j /\ inner.buckets[i][2] # <<>> /\ inner.buckets[j][2] # <<>>

\* S nanoseconds in seconds as f64 arithmetic gives them, for S of any size.
SecondsOfTotal(S) == F64Mul(Round(S, 0), F64_1Em9)

\* A snapshot has been returned during which no observe() was in flight.
CleanSnapshot == spc = "idle" /\ nSnaps > 0 /\ snapClean

\* C7, as stated: once all observe() calls have returned, the sum is the
\* total S of the observed values, and a snapshot shows S * 1e-9 seconds.
C7_SumIsTotal ==
    /\ AllIdle => inner.sum = total
    /\ CleanSnapshot => snap.sum = Some(SecondsOfTotal(snapTotal))

\* C7, amended: once all observe() calls have returned, the sum is the total
\* S of the observed values modulo 2^64 (S itself when S < 2^64), and a
\* snapshot shows the f64 product of that u64 and 1E-9.
C7_SumIsTotalMod64 ==
    /\ AllIdle => inner.sum = WrapU64(total)
    /\ CleanSnapshot => snap.sum = Some(seconds(WrapU64(snapTotal)))

\* A snapshot taken at rest after observations whose total exceeds 64 bits.
C7_Witness ==
    /\ CleanSnapshot
    /\ Len(snapTotal) > U64Bytes
    /\ snap.count = Some(NatToBytes(2))

\* The places of the bounds that are >= x.
Matching(buckets, x) == {i \in 1..Len(buckets) : F64Ge(buckets[i][1], x)}

\* The bounds are in non-decreasing order.
NonDecreasing(buckets) ==
    \A i \in 1..(Len(buckets) - 1) : F64Ge(buckets[i + 1][1], buckets[i][1])

\* C8: each observe(v) increments exactly one bucket counter by 1 and leaves
\* the others unchanged: that of the first bucket in sequence order whose
\* bound is >= v in seconds (a bound equal to v counts), which for
\* non-decreasing bounds is a lowest matching bound; the sum and count steps
\* of the call touch no bucket.
C8_FirstMatchingBucket ==
    [][\A t \in Threads :
        /\ (pc[t] = "bucket" /\ pc'[t] = "idle") =>
             LET M == Matching(inner.buckets, seconds(arg[t]))
                 f == CHOOSE i \in M : \A j \in M : i <= j
             IN  /\ M # {}
                 /\ inner'.buckets = [inner.buckets EXCEPT ![f][2] = fetch_add(@, One)]
                 /\ NonDecreasing(inner.buckets) =>
                      \A j \in M : F64Ge(inner.buckets[j][1], inner.buckets[f][1])
        /\ (pc[t] \in {"sum", "count"} /\ pc'[t] # pc[t]) =>
             inner'.buckets = inner.buckets
      ]_vars

\* One call, of exactly one second, has returned: it is in the bucket of
\* bound 1.0, the second of the sequence, and in no other.
C8_Witness ==
    /\ AllIdle /\ completed = 1 /\ started = 1
    /\ inner.sum = NatToBytes(4 * Tick)
    /\ given = <<F64_0_25, F64_1_0>>
    /\ inner.buckets = <<<<F64_0_25, <<>>>>, <<F64_1_0, One>>, <<F64_MAX, <<>>>>>>

\* C9: a histogram built from N bounds has N + 1 buckets in every state, the
\* caller's bounds in the given order followed by f64::MAX, and so every u64
\* value, up to u64::MAX, finds a bucket, also with no caller bounds at all.
C9_ShapeFixed ==
    /\ Len(inner.buckets) = Len(given) + 1
    /\ [i \in 1..Len(inner.buckets) |-> inner.buckets[i][1]] = given \o <<F64_MAX>>
    /\ \A v \in Values \cup {<<>>, U64MAX} : first_bucket(inner.buckets, v) # 0

\* A histogram made with no bounds has taken an observation of u64::MAX.
C9_Witness ==
    /\ given = <<>>
    /\ AllIdle
    /\ inner.sum = U64MAX
    /\ inner.buckets = <<<<F64_MAX, One>>>>

\* C10: a snapshot taken while no observe() is in flight has count equal to
\* the total of its bucket counts (snapshots taken meanwhile need not: seen
\* collects what they showed).
C10_CleanSnapshotConsistent ==
    CleanSnapshot => snap.count = Some(BucketTotal(snap.buckets))

\* Snapshots taken while observe() calls were in flight have shown a count
\* above the bucket total, a count below it, and a sum without an observation
\* that the count includes; the last snapshot, taken at rest, shows both
\* observations in count and buckets.
C10_Witness ==
    /\ {"count above buckets", "count below buckets", "sum behind count"} \subseteq seen
    /\ CleanSnapshot
    /\ snap.count = Some(NatToBytes(2))
    /\ BucketTotal(snap.buckets) = NatToBytes(2)

\* C11: the exposition of a snapshot is the sum sample, then the count
\* sample, then one bucket sample per bucket in bucket order, the i-th with
\* the bound of bucket i and the total of the counts of buckets 1..i: the
\* bucket values never decrease and the last is the total of all the bucket
\* counts of the snapshot.
C11_CumulativeExposition ==
    (spc = "idle" /\ nSnaps > 0) =>
        LET n == Len(snap.buckets)
        IN  /\ Len(out) = n + 2
            /\ out[1] = Sample("sum", None, snap.sum[1])
            /\ out[2] = Sample("count", None, snap.count[1])
            /\ \A i \in 1..n :
                 out[i + 2] = Sample("bucket", Some(snap.buckets[i][1]),
                                     BucketTotal(SubSeq(snap.buckets, 1, i)))
            /\ \A i \in 1..(n - 1) : GeBytes(out[i + 3].value, out[i + 2].value)
            /\ out[n + 2].value = BucketTotal(snap.buckets)

\* A snapshot with one observation in each of its two buckets was encoded:
\* the bucket samples read 1 and 2.
C11_Witness ==
    /\ spc = "idle" /\ nSnaps > 0
    /\ [i \in 1..Len(snap.buckets) |-> snap.buckets[i][2]] = <<One, One>>
    /\ [i \in 1..Len(out) |-> out[i].suffix] = <<"sum", "count", "bucket", "bucket">>
    /\ out[3].value = One /\ out[4].value = NatToBytes(2)

\* ------------------------------------------------------ claims: the Family
\* The reference thread t took last.
LastRef(rs) == rs[Len(rs)]

\* Thread t's get_or_create returns in this step.
GocReturns(t) == fpc[t] \in {"goc_read", "goc_get"} /\ fpc'[t] = "idle"

\* Every reference held points at the instance the map holds for its label set.
RefsLive ==
    \A t \in Threads : \A i \in 1..Len(refs[t]) :
        /\ refs[t][i].label \in DOMAIN metrics
        /\ metrics[refs[t][i].label].id = refs[t][i].id

\* C12: under every interleaving of get_or_create, remove, clear and encode
\* the map holds one instance per label set: the instance of an entry is never
\* replaced while the entry stays, the constructor runs only for a label set
\* that has no entry, its result going into the map in the same step, and all
\* references held for a label set point at the one instance in the map, also
\* when threads raced to create it.
C12_OneInstancePerLabelSet ==
    /\ [](/\ RefsLive
          /\ \A k, l \in DOMAIN metrics : metrics[k].id = metrics[l].id => k = l
          /\ \A l \in DOMAIN metrics : metrics[l].id < nextId)
    /\ [][/\ \A l \in DOMAIN metrics \cap DOMAIN metrics' : metrics'[l].id = metrics[l].id
          /\ nextId' # nextId =>
               /\ nextId' = nextId + 1
               /\ \E l \in DOMAIN metrics' \ DOMAIN metrics : metrics'[l] = new_metric(nextId)
         ]_vars

\* Two threads raced to create "a": one inserted, the other found the entry
\* under its write lock; both hold a reference to the one instance made.
C12_Witness ==
    /\ nextId = 1
    /\ \E t, u \in Threads :
         /\ t # u /\ Holding(t) /\ Holding(u)
         /\ LastRef(refs[t]).label = "a" /\ LastRef(refs[u]).label = "a"
         /\ LastRef(refs[t]).via = "found"
         /\ LastRef(refs[t]).id = LastRef(refs[u]).id

\* C13: a get_or_create for a label set that an earlier get_or_create was
\* given, with no remove of it and no clear since, returns the same instance,
\* showing the increments made through earlier references, and changes
\* nothing in the map: it neither replaces nor resets the metric nor touches
\* another entry.
C13_SameInstanceAgain ==
    [][\A t \in Threads :
        (GocReturns(t) /\ fcall[t] \in DOMAIN expect) =>
            /\ LastRef(refs'[t]).id = expect[fcall[t]].id
            /\ LastRef(refs'[t]).val = expect[fcall[t]].val
            /\ metrics' = metrics
      ]_vars

\* One thread holds the reference that created "a", the other a reference it
\* got later by a lookup, which showed the increment made through the first.
C13_Witness ==
    \E t, u \in Threads :
        /\ t # u /\ Holding(t) /\ Holding(u)
        /\ LastRef(refs[t]) = [label |-> "a", id |-> 0, val |-> 0, via |-> "insert"]
        /\ LastRef(refs[u]) = [label |-> "a", id |-> 0, val |-> 1, via |-> "hit"]

\* Thread t's remove returns in this step.
RemoveReturns(t) == fpc[t] = "rm_drain" /\ fpc'[t] = "idle"

\* C14: remove(label_set) returns true exactly when the map, the write lock
\* held, has an entry for the label set (which is when a get_or_create gave
\* it out and no remove or clear took it since); afterwards the map has none,
\* the entries of the other label sets are as before, and on an absent label
\* set nothing changes.
C14_RemoveOnlyThatEntry ==
    [][\A t \in Threads :
        RemoveReturns(t) =>
            LET l == fcall[t]
            IN  /\ fret'[t].op = "remove"
                /\ fret'[t].present = (l \in DOMAIN metrics)
                /\ fret'[t].present = (l \in DOMAIN expect)
                /\ l \notin DOMAIN metrics'
                /\ DOMAIN metrics' = DOMAIN metrics \ {l}
                /\ \A k \in DOMAIN metrics \ {l} : metrics'[k] = metrics[k]
                /\ l \notin DOMAIN metrics => metrics' = metrics
      ]_vars

\* A remove of "b" returned true and left the entry of "a", with its
\* increment, in the map.
C14_Witness ==
    /\ \E t \in Threads : fret[t].op = "remove" /\ fret[t].present /\ fcall[t] = "b"
    /\ DOMAIN metrics = {"a"}
    /\ metrics["a"].val = 1
    /\ "b" \in DOMAIN gone

\* C15: the first get_or_create(label_set) after a remove of an existing
\* entry runs the constructor and returns the new instance in its initial
\* state: another instance than the removed one, with nothing of its state.
C15_FreshAfterRemove ==
    [][\A t \in Threads :
        (GocReturns(t) /\ fcall[t] \in DOMAIN gone /\ fcall[t] \notin DOMAIN expect) =>
            LET l == fcall[t]
                r == LastRef(refs'[t])
            IN  /\ r.id = nextId - 1
                /\ r.id # gone[l].id
                /\ r.val = 0
                /\ metrics'[l] = new_metric(r.id)
      ]_vars

\* "a" was incremented, removed and created again: the reference held shows a
\* second instance at 0.
C15_Witness ==
    /\ "a" \in DOMAIN gone
    /\ gone["a"] = [id |-> 0, val |-> 1]
    /\ "a" \in DOMAIN metrics
    /\ metrics["a"] = new_metric(1)
    /\ \E t \in Threads : Holding(t) /\ LastRef(refs[t]).label = "a" /\ LastRef(refs[t]).id = 1

\* C16: after a clear() the map is empty, whatever it held, until a
\* get_or_create returns, and an encode whose loop runs meanwhile writes no
\* sample.
C16_ClearEmpties ==
    /\ cleared => metrics = EmptyMap
    /\ \A t \in Threads : (fret[t].op = "encode" /\ fret[t].cleared) => fret[t].out = <<>>

\* Two instances had been made, a clear has returned, and an encode after it
\* wrote nothing.
C16_Witness ==
    /\ nextId = 2
    /\ cleared
    /\ \E t \in Threads : fret[t].op = "encode" /\ fret[t].cleared /\ fret[t].out = <<>>

\* Thread t is inside a Family method.
InCall(t) == fpc[t] # "idle"

\* Some thread is inside a method and no thread inside one, or with a
\* reference to drop, can take a step: only new calls could follow.
Halted ==
    /\ \E t \in Threads : InCall(t)
    /\ ~ENABLED (\E t \in Threads : Progress(t))

\* C17, as stated: a deadlock is reached only where a thread is inside
\* get_or_create while it holds a reference of an earlier get_or_create.
C17_DeadlockOnlyByGetOrCreate ==
    Halted => \E t \in Threads :
                 Holding(t) /\ fpc[t] \in {"goc_read", "goc_miss", "goc_write", "goc_drain", "goc_get"}

\* C17, amended: a deadlock is reached only where a thread is inside a
\* method of the Family, get_or_create, remove, clear or encode, while it
\* holds a reference of an earlier get_or_create.
C17_DeadlockOnlyWhileHolding ==
    Halted => \E t \in Threads : Holding(t) /\ InCall(t)

\* No thread is inside a method with a reference in hand; a remove has taken
\* the writer's place and waits for the reference another thread holds, a
\* state that thread ends by dropping it.
C17_Witness ==
    /\ \A t \in Threads : ~(Holding(t) /\ InCall(t))
    /\ \E t, u \in Threads :
         /\ fpc[t] = "rm_drain"
         /\ fpc[u] = "idle" /\ Holding(u)
         /\ ~ENABLED RemoveCommit(t)
    /\ ~Halted

\* The read guards thread t holds: its references, and the guard of a lookup
\* or of an encode in progress.
Shares(t) == Len(refs[t]) + IF fpc[t] \in {"goc_miss", "goc_get", "enc_iter"} THEN 1 ELSE 0

\* The read guards of all threads.
AllShares == Shares("t1") + Shares("t2")

\* C18, as stated: while a thread holds a reference, the get_or_create of
\* another thread for a different label set that has no entry can insert its
\* entry and return without waiting for the reference to go.
C18_CreationNeverWaits ==
    \A t, u \in Threads :
        (/\ t # u
         /\ fpc[t] = "goc_drain" /\ fcall[t] \notin DOMAIN metrics
         /\ fpc[u] = "idle" /\ Holding(u)
         /\ \A i \in 1..Len(refs[u]) : refs[u][i].label # fcall[t])
        => ENABLED GocInsert(t)

\* C18, amended: a reference returned by get_or_create holds a read lock and
\* nothing else (the readers of the lock are the guards held, the writer's
\* place is taken only by a thread inside write()), and that read lock does
\* keep new keys from being created: the get_or_create of another thread for
\* a label set that has no entry waits at its write lock as long as any read
\* guard is held, and inserts its entry and returns, then a reader itself,
\* once all have been released.
C18_CreationWaitsForReferences ==
    /\ [](/\ lock.readers = AllShares
          /\ lock.writer = (\E t \in Threads : fpc[t] \in {"goc_drain", "rm_drain", "cl_drain"})
          /\ \A t \in Threads :
               fpc[t] = "goc_drain" => (ENABLED GocInsert(t) <=> AllShares = 0))
    /\ [][\A l \in DOMAIN metrics' \ DOMAIN metrics :
            /\ \A t \in Threads : refs[t] = <<>>
            /\ lock' = [writer |-> FALSE, readers |-> 1]
         ]_vars

\* A get_or_create for "b", which has no entry, waits at its write lock while
\* another thread holds a reference to "a".
C18_Witness ==
    \E t, u \in Threads :
        /\ t # u
        /\ fpc[t] = "goc_drain" /\ fcall[t] = "b" /\ "b" \notin DOMAIN metrics
        /\ fpc[u] = "idle" /\ Len(refs[u]) = 1 /\ refs[u][1].label = "a"
        /\ ~ENABLED GocInsert(t)

\* C19: a get_or_create whose label set has an entry takes the read lock and
\* not the write lock: its lookup can go ahead whenever no writer has taken
\* its place, however many read guards are held, and its return adds one
\* reader and leaves the map as it was; so the threads can hold references
\* got this way at the same time.
C19_HitsShareTheLock ==
    /\ [](\A t \in Threads :
             (fpc[t] = "goc_read" /\ ~lock.writer) => ENABLED GocRead(t))
    /\ [][\A t \in Threads :
            (fpc[t] = "goc_read" /\ fpc'[t] = "idle") =>
                /\ fcall[t] \in DOMAIN metrics
                /\ lock' = [writer |-> FALSE, readers |-> lock.readers + 1]
                /\ metrics' = metrics
                /\ LastRef(refs'[t]).via = "hit"
         ]_vars

\* Both threads hold, at the same time, a reference they got by the
\* read-locked lookup, one to "a" and one to "b".
C19_Witness ==
    /\ lock = [writer |-> FALSE, readers |-> 2]
    /\ \E t, u \in Threads :
         /\ t # u
         /\ fpc[t] = "idle" /\ fpc[u] = "idle"
         /\ [i \in 1..Len(refs[t]) |-> refs[t][i].via] = <<"hit">>
         /\ [i \in 1..Len(refs[u]) |-> refs[u][i].via] = <<"hit">>
         /\ refs[t][1].label = "a" /\ refs[u][1].label = "b"

\* ------------------------------------------------- claims: the serializer
\* What the top-level pass made of the label set: the struct it is or wraps.
Target == top_serialize(sval)

\* What the value-level pass writes for v alone, into a writer that takes it.
Rendered(v) == value_serialize([buf |-> <<>>, left |-> Unlimited], v)

\* The key of field f is valid and its value is one the value-level pass takes.
Supported(f) == check_key(f.key) /\ Rendered(f.value).err = "none"

\* key="value"
Pair(f) == f.key \o <<"=", Quote>> \o Rendered(f.value).w.buf \o <<Quote>>

RECURSIVE Pairs(_)
\* The pairs of the fields fs in their order, a comma between two of them.
Pairs(fs) ==
    IF fs = <<>> THEN <<>>
    ELSE IF Len(fs) = 1 THEN Pair(fs[1])
    ELSE Pair(fs[1]) \o <<",">> \o Pairs(Tail(fs))

\* C20: for a struct-shaped label set whose keys are valid and whose values
\* are supported, the serializer (its writer not failing) succeeds and has
\* written exactly key1="v1",key2="v2",...,keyn="vn" in the order of the
\* fields: each value between one pair of double quotes, one comma between
\* consecutive pairs, none before the first or after the last, no braces; for
\* a struct of zero fields it has written nothing.
C20_PairsInFieldOrder ==
    (/\ splace = "done"
     /\ Target.struct
     /\ sres # "io"
     /\ \A i \in 1..Len(Target.fields) : Supported(Target.fields[i]))
    => /\ sres = "ok"
       /\ sw.buf = Pairs(Target.fields)
       /\ Target.fields = <<>> => sw.buf = <<>>

\* The label set {p: "/f", s: 200} has been written as p="/f",s="200".
C20_Witness ==
    /\ splace = "done"
    /\ sres = "ok"
    /\ sval = StructV(<<Field(<<"p">>, Text("str", <<"/", "f">>)),
                        Field(<<"s">>, Num("int", 200))>>)
    /\ sw.buf = <<"p", "=", Quote, "/", "f", Quote, ",",
                  "s", "=", Quote, "2", "0", "0", Quote>>

\* The fields the struct has passed to serialize_field and got Ok(()) for.
Passed == SubSeq(Target.fields, 1, Len(Target.fields) - Len(stodo))

\* A key of the exposition format: [a-zA-Z_:][a-zA-Z0-9_:]*
ValidKey(k) ==
    /\ Len(k) >= 1
    /\ k[1] \in AsciiAlphabetic \cup {"_", ":"}
    /\ \A i \in 2..Len(k) : k[i] \in AsciiAlphabetic \cup AsciiDigit \cup {"_", ":"}

\* C21: check_key accepts a key if and only if the key is non-empty, its
\* first character is an ASCII letter, underscore or colon and every later one
\* an ASCII letter, ASCII digit, underscore or colon; every other key fails
\* with the invalid-key error: the fields that went through have such keys,
\* and the serialization has ended with the invalid-key error exactly when
\* the field it stopped at has none.
C21_CheckKey ==
    (splace \in {"fields", "done"} /\ Target.struct) =>
        /\ \A i \in 1..Len(Passed) : ValidKey(Passed[i].key)
        /\ (splace = "done" /\ stodo # <<>>) =>
               (sres = "invalid key" <=> ~ValidKey(Head(stodo).key))
        /\ sres = "invalid key" => stodo # <<>>

\* A field with the key _i:2 went through and the next, with the key 1x, was
\* refused.
C21_Witness ==
    /\ splace = "done"
    /\ sres = "invalid key"
    /\ Len(Passed) = 1
    /\ Passed[1].key = <<"_", "i", ":", "2">>
    /\ Head(stodo).key = <<"1", "x">>

RECURSIVE Unwrapped(_)
\* The value inside the Some and newtype-struct wrappers of v.
Unwrapped(v) == IF v.kind \in {"some", "newtype_struct"} THEN Unwrapped(v.of[1]) ELSE v

\* C22: the top-level pass succeeds only for a struct or for a unit, unit
\* struct or None, looked for through Some and newtype-struct wrappers; the
\* latter three encode to nothing; every other shape (bool, integer, float,
\* char, string, bytes, sequence, tuple, tuple struct, map, enum variant)
\* fails with the unsupported-at-top-level error and writes nothing.
C22_TopLevelShapes ==
    splace # "top" =>
        LET kind == Unwrapped(sval).kind
        IN  /\ sres = "ok" => kind \in {"struct", "unit", "unit_struct", "none"}
            /\ kind \in {"unit", "unit_struct", "none"} =>
                   splace = "done" /\ sres = "ok" /\ sw.buf = <<>>
            /\ kind \notin {"struct", "unit", "unit_struct", "none"} =>
                   splace = "done" /\ sres = "unsupported" /\ sw.buf = <<>>

\* Text b ends with text t.
EndsWith(b, t) == Len(b) >= Len(t) /\ SubSeq(b, Len(b) - Len(t) + 1, Len(b)) = t

\* serialize_field has just returned Ok(()) for a field.
FieldWritten == splace = "fields" /\ Passed # <<>>

\* The field that was passed last.
LastPassed == Passed[Len(Passed)]

\* The output ends with the key of field f, =" and text: that is all the
\* value-level pass wrote for the field.
ValueIs(f, text) == EndsWith(sw.buf, f.key \o <<"=", Quote>> \o text)

\* The field the serialization stopped at.
Refused == splace = "done" /\ Target.struct /\ stodo # <<>>

RECURSIVE Escaped(_)
\* Text s with \ before each quote and backslash and \n for each newline.
Escaped(s) ==
    IF s = <<>> THEN <<>>
    ELSE (CASE s[1] = Quote -> <<Backslash, Quote>>
            [] s[1] = Backslash -> <<Backslash, Backslash>>
            [] s[1] = Newline -> <<Backslash, "n">>
            [] OTHER -> <<s[1]>>) \o Escaped(Tail(s))

\* C23 as stated: at value level the unit value, a unit struct and None
\* write nothing, so that the field is rendered as key="".
C23_UnitValuesWriteNothing ==
    /\ (FieldWritten /\ LastPassed.value.kind \in {"unit", "unit_struct", "none"}) =>
           ValueIs(LastPassed, <<>>)
    /\ (Refused /\ Head(stodo).value.kind \in {"unit", "unit_struct", "none"}) =>
           sres \in {"invalid key", "io"}

\* C23 as amended: at value level the unit value and None write nothing, so
\* that the field is rendered as key=""; a unit struct is written as the name
\* of the struct, passed through the string escaper.
C23_UnitAndNoneWriteNothing ==
    /\ (FieldWritten /\ LastPassed.value.kind \in {"unit", "none"}) =>
           ValueIs(LastPassed, <<>>)
    /\ (FieldWritten /\ LastPassed.value.kind = "unit_struct") =>
           ValueIs(LastPassed, Escaped(LastPassed.value.text))
    /\ (Refused /\ Head(stodo).value.kind \in {"unit", "unit_struct", "none"}) =>
           sres \in {"invalid key", "io"}

\* A None has been written as n="" and after it a unit struct U as u="U".
C23_Witness ==
    /\ splace = "done"
    /\ sres = "ok"
    /\ Len(Passed) = 2
    /\ Passed[1].value.kind = "none"
    /\ Passed[2].value.kind = "unit_struct"
    /\ sw.buf = <<"n", "=", Quote, Quote, ",", "u", "=", Quote, "U", Quote>>

\* The kinds of value the claim wants refused.
Composite ==
    {"bytes", "seq", "tuple", "tuple_struct", "map", "struct",
     "newtype_variant", "tuple_variant", "struct_variant"}

\* C24: at value level a field value that is a byte string, sequence, tuple,
\* tuple struct, map, struct or an enum variant carrying data fails with the
\* unexpected-value error (unless the key or the writer failed before) and
\* no byte of the value is written; a unit variant succeeds and is written as
\* its name, passed through the string escaper.
C24_CompositeValuesRefused ==
    /\ FieldWritten =>
           /\ Unwrapped(LastPassed.value).kind \notin Composite
           /\ Unwrapped(LastPassed.value).kind = "unit_variant" =>
                  ValueIs(LastPassed, Escaped(Unwrapped(LastPassed.value).text))
    /\ (Refused /\ Unwrapped(Head(stodo).value).kind \in Composite) =>
           /\ sres \in {"unexpected", "invalid key", "io"}
           /\ ValidKey(Head(stodo).key) /\ sres # "io" => sres = "unexpected"
           /\ sres = "unexpected" => ValueIs(Head(stodo), <<>>)
    /\ (Refused /\ Unwrapped(Head(stodo).value).kind = "unit_variant") =>
           sres \in {"invalid key", "io"}

\* The unit variant GET has been written as m="GET and the byte string after
\* it refused, the output ending with b=".
C24_Witness ==
    /\ Refused
    /\ sres = "unexpected"
    /\ Len(Passed) = 1
    /\ Passed[1].value.kind = "unit_variant"
    /\ Head(stodo).value.kind = "bytes"
    /\ sw.buf = <<"m", "=", Quote, "G", "E", "T", Quote, ",", "b", "=", Quote>>

\* C25: for every input string, write_escaped outputs the input with each
\* double quote replaced by backslash and quote, each backslash by two
\* backslashes, each newline by backslash and n, and every other character
\* copied, in order: nothing dropped, duplicated or reordered, wherever the
\* special characters stand.
C25_EscapedOutput ==
    /\ (FieldWritten /\ LastPassed.value.kind = "str") =>
           ValueIs(LastPassed, Escaped(LastPassed.value.text))
    /\ (splace = "done" /\ sres = "ok" /\ Len(Passed) = 1 /\ Passed[1].value.kind = "str") =>
           sw.buf = Passed[1].key \o <<"=", Quote>> \o Escaped(Passed[1].value.text)
                    \o <<Quote>>

\* The string of a quote, an a, a backslash and a newline has been written
\* as \"a\\\n between the quotes of the field.
C25_Witness ==
    /\ splace = "done"
    /\ sres = "ok"
    /\ Len(Passed) = 1
    /\ Passed[1].value = Text("str", <<Quote, "a", Backslash, Newline>>)
    /\ sw.buf = <<"q", "=", Quote, Backslash, Quote, "a", Backslash, Backslash,
                  Backslash, "n", Quote>>

\* The serialization of a label set has failed.
Failed == sres \notin {"none", "ok"}

\* C26: serialization and encoding are fail-fast.  Once the serialization of
\* a field has failed (invalid key, unexpected value or writer error), no
\* later field of the label set is serialized and nothing more is written;
\* and once the encoding of an entry has failed, the one thing Family::encode
\* does is return the error: it comes to no other entry of the map, and it
\* returns Ok(()) only when every entry was encoded.
C26_FailFast ==
    /\ [](Failed => splace = "done")
    /\ [](eres = "ok" => ~Failed /\ Unvisited = {})
    /\ [][(Failed \/ eres = "err") =>
             /\ sw' = sw /\ stodo' = stodo /\ evisit' = evisit
             /\ eres' = "err"]_vars

\* In a Family of two entries the first one come to has a byte string as its
\* first field: encode has returned the error, the field after it and the
\* other entry untouched.
C26_Witness ==
    /\ eres = "err"
    /\ sres = "unexpected"
    /\ Len(stodo) = 2
    /\ Len(evisit) = 1
    /\ Cardinality(Unvisited) = 1
    /\ sw.buf = <<"b", "=", Quote>>

\* The operation done last read the clock earlier than the running_start
\* the timer had stored.
ReadEarlier == pre.timer.start # None /\ pre.now < pre.timer.start[1]

\* C27: every duration a timer computes is non-negative even when a clock
\* reading is earlier than the stored running_start: the elapsed part
\* saturates to zero, so that pause() adds nothing then and accumulated never
\* decreases, and stop_and_record() / stop_and_discard() return what was
\* accumulated, never less.
C27_DurationsSaturate ==
    /\ timer.accumulated >= 0
    /\ lastOp = "pause" =>
           /\ timer.accumulated >= pre.timer.accumulated
           /\ ReadEarlier => timer.accumulated = pre.timer.accumulated
    /\ lastOp \in {"stop_and_record", "stop_and_discard"} =>
           /\ ret[1] >= pre.timer.accumulated
           /\ ReadEarlier => ret = Some(pre.timer.accumulated)
           /\ lastOp = "stop_and_record" => tlog = <<as_nanos_u64(ret[1])>>

\* A timer that had accumulated a tick was paused at a clock reading earlier
\* than its running_start, and kept its tick.
C27_Witness ==
    /\ lastOp = "pause"
    /\ ReadEarlier
    /\ pre.timer.accumulated = Tick
    /\ timer.accumulated = Tick

\* The states of the timer value.
Running == tstate = "live" /\ timer.start # None
Paused == tstate = "live" /\ timer.start = None
Finalized == tstate = "gone"

\* C28: the timer follows the state machine Running / Paused / Finalized.
\* start_timer() returns a timer that is Running with accumulated = 0 and
\* observed = false and leaves the histogram alone; pause() is the only way
\* from Running to Paused and resume() the only way from Paused to Running;
\* stop_and_record, stop_and_discard and drop lead to Finalized from either
\* state; Finalized is terminal and entered at most once per timer.
C28_TimerStateMachine ==
    /\ lastOp = "start_timer" =>
           /\ Running
           /\ timer = [observed |-> FALSE, start |-> Some(pre.now), accumulated |-> 0]
           /\ inner = pre.inner
    /\ Paused <=> lastOp = "pause"
    /\ Running <=> lastOp \in {"start_timer", "resume"}
    /\ Finalized <=> lastOp \in {"stop_and_record", "stop_and_discard", "drop"}
    /\ tstate = "live" =>
           /\ ~timer.observed
           /\ Len(fins) = nTimers - 1
    /\ Finalized =>
           /\ timer.observed
           /\ pre.timer.start = timer.start /\ ~pre.timer.observed
           /\ ~ENABLED (Pause \/ Resume \/ StopAndRecord \/ StopAndDiscard \/ DropTimer)
           /\ Len(fins) = nTimers

\* A second timer, after the first was stopped, has been paused, resumed and
\* then dropped while running.
C28_Witness ==
    /\ Finalized
    /\ nTimers = 2
    /\ fins = <<"stop_and_record", "drop">>
    /\ pre.timer.start # None
    /\ pre.timer.accumulated > 0
    /\ "resume while running" \notin seen
    /\ timer.observed

\* ------------------------------------------- claims: the Family, miss path
\* C29: on the miss path of get_or_create the entry inserted, or found,
\* under the write lock is in the map when it is looked up after the
\* downgrade, under every interleaving with remove, clear and get_or_create
\* of other threads: from the insertion to the return the thread holds a read
\* guard, the map keeps the entry, no thread can finish a write lock, and the
\* expect() on the lookup never panics.
C29_EntryStillThere ==
    \A t \in Threads :
        /\ fpc[t] # "panicked"
        /\ fpc[t] = "goc_get" =>
               /\ fcall[t] \in DOMAIN metrics
               /\ lock.readers >= 1
               /\ \A u \in Threads :
                    ~ENABLED (RemoveCommit(u) \/ ClearCommit(u) \/ GocInsert(u))

\* A thread has inserted a new entry and downgraded, and has yet to look the
\* entry up, while another thread's remove of that label set has taken the
\* writer's place and waits.
C29_Witness ==
    \E t, u \in Threads :
        /\ fpc[t] = "goc_get" /\ ~fret[t].present
        /\ fpc[u] = "rm_drain" /\ fcall[u] = fcall[t]
        /\ lock = [writer |-> TRUE, readers |-> 1]

\* Thread t is inside get_or_create, before its insertion, with a reference
\* of an earlier get_or_create in hand and a label set that has no entry.
Stuck(t) ==
    /\ fpc[t] \in {"goc_read", "goc_miss", "goc_write", "goc_drain"}
    /\ Holding(t)
    /\ fcall[t] \notin DOMAIN metrics

\* C30: a thread that calls get_or_create for a label set without an entry
\* while it holds a reference of an earlier get_or_create never returns: it
\* stays inside the call whatever the threads do, its write() cannot finish
\* while the lock counts the read guard of that reference, and that
\* reference goes only by a drop the thread makes outside of a call.
C30_BlocksForever ==
    /\ [](\A t \in Threads :
             Stuck(t) =>
                 /\ lock.readers >= Len(refs[t])
                 /\ ~ENABLED GocInsert(t))
    /\ [][\A t \in Threads :
            /\ Stuck(t) => Stuck(t)'
            /\ (InCall(t) /\ Holding(t)) => Len(refs'[t]) >= Len(refs[t])
         ]_vars

\* A thread that holds the only reference of the Family has called
\* get_or_create for "b", which has no entry, has taken the writer's place
\* and waits for the readers to leave: for its own guard.
C30_Witness ==
    \E t, u \in Threads :
        /\ t # u
        /\ Stuck(t) /\ fpc[t] = "goc_drain" /\ fcall[t] = "b"
        /\ ~InCall(u) /\ ~Holding(u)
        /\ lock = [writer |-> TRUE, readers |-> Len(refs[t])]

\* ------------------------------------- claims: the Family, held references
\* C31: while a thread holds a reference returned by get_or_create the map
\* does not change: no step of any thread adds an entry, takes one away or
\* puts another instance in its place, the write() of an insertion, a remove
\* or a clear cannot finish, and what a held reference points at is the
\* instance the map holds.
C31_MapFixedWhileHeld ==
    /\ []((\E t \in Threads : Holding(t)) =>
             /\ RefsLive
             /\ \A u \in Threads :
                  ~ENABLED (GocInsert(u) \/ RemoveCommit(u) \/ ClearCommit(u)))
    /\ [][(\E t \in Threads : Holding(t)) =>
             /\ DOMAIN metrics' = DOMAIN metrics
             /\ \A l \in DOMAIN metrics : metrics'[l].id = metrics[l].id
         ]_vars

\* A thread holds a reference to "a" while the writer's place is taken by
\* another thread's clear, which waits, and the map still has the entry made
\* first.
C31_Witness ==
    \E t, u \in Threads :
        /\ t # u
        /\ fpc[t] = "idle" /\ Holding(t) /\ refs[t][1].label = "a"
        /\ fpc[u] = "cl_drain"
        /\ "a" \in DOMAIN metrics /\ metrics["a"].id = 0

\* ------------------------------------ claims: the counters during observe
\* The observe() calls that have begun and not returned.
InFlight == started - completed

\* C32: in every state the threads' observe() calls can reach, however their
\* steps interleave, the bucket counters add up to at most the count, the
\* count is at most the number of calls begun, and the count is ahead of the
\* bucket total by at most the number of calls in flight: by exactly the
\* calls that have added to the count and not yet to their bucket.
C32_BucketsBehindCount ==
    \E c \in 0..started : \E b \in 0..c :
        /\ inner.count = NatToBytes(c)
        /\ BucketTotal(inner.buckets) = NatToBytes(b)
        /\ c - b <= InFlight
        /\ c - b = Cardinality({t \in Threads : pc[t] = "bucket"})
        /\ b = completed

\* Both threads have added to the count and not yet to a bucket, after two
\* calls that returned: the count is 4, the buckets hold 2.
C32_Witness ==
    /\ \A t \in Threads : pc[t] = "bucket"
    /\ inner.count = NatToBytes(4)
    /\ BucketTotal(inner.buckets) = NatToBytes(2)
    /\ InFlight = 2

\* ------------------------------------------- claims: escaping, round trip
\* Text e is made of characters other than quote, backslash and newline and
\* of the pairs backslash-quote, backslash-backslash and backslash-n.
RECURSIVE WellEscaped(_)
WellEscaped(e) ==
    IF e = <<>> THEN TRUE
    ELSE IF e[1] = Backslash
         THEN Len(e) >= 2 /\ e[2] \in {Quote, Backslash, "n"} /\ WellEscaped(SubSeq(e, 3, Len(e)))
         ELSE e[1] \notin {Quote, Newline} /\ WellEscaped(Tail(e))

\* The inverse replacement, read from the left: each pair gives the character
\* it stands for, every other character itself.
RECURSIVE Unescaped(_)
Unescaped(e) ==
    IF e = <<>> THEN <<>>
    ELSE IF e[1] = Backslash /\ Len(e) >= 2
         THEN <<IF e[2] = "n" THEN Newline ELSE e[2]>> \o Unescaped(SubSeq(e, 3, Len(e)))
         ELSE <<e[1]>> \o Unescaped(Tail(e))

\* The label set has one field, a string or a char, which went through.
OneTextField ==
    /\ splace \in {"fields", "done"}
    /\ Target.struct
    /\ Len(Target.fields) = 1
    /\ Target.fields[1].value.kind \in {"str", "char"}
    /\ Len(Passed) = 1
    /\ sres \in {"none", "ok"}

\* What stands in the output after key=" of the only field, up to the closing
\* quote that end() writes.
WrittenValue ==
    SubSeq(sw.buf, Len(Passed[1].key) + 3, Len(sw.buf) - IF sres = "ok" THEN 1 ELSE 0)

\* C33: what the escaping writes for a string or a char holds no newline, no
\* quote but after a backslash that escapes it, and no backslash outside the
\* pairs backslash-quote, backslash-backslash and backslash-n: the closing
\* quote of the field is the first unescaped one; and the inverse replacement
\* gives back the string.
C33_EscapingRoundTrip ==
    OneTextField =>
        /\ \A i \in 1..Len(WrittenValue) : WrittenValue[i] # Newline
        /\ \A i \in 1..Len(WrittenValue) :
             WrittenValue[i] = Quote => (i > 1 /\ WrittenValue[i - 1] = Backslash)
        /\ WellEscaped(WrittenValue)
        /\ Unescaped(WrittenValue) = Passed[1].value.text

\* The string of a backslash, an n and a newline has been written as
\* backslash, backslash, n, backslash, n, and the field closed.
C33_Witness ==
    /\ OneTextField
    /\ sres = "ok"
    /\ Passed[1].value = Text("str", <<Backslash, "n", Newline>>)
    /\ WrittenValue = <<Backslash, Backslash, "n", Backslash, "n">>

\* ------------------------------------------- claims: the Display path
\* The label set has one field, a value written through its Display, and
\* serialize_field has returned for it.
DisplayFieldDone ==
    /\ Target.struct
    /\ Len(Target.fields) = 1
    /\ Target.fields[1].value.kind = "display"
    /\ \/ splace = "fields" /\ stodo = <<>>
       \/ splace = "done" /\ stodo # <<>>

\* serialize_field for the same key and the whole text as one string, into
\* the writer the serialization began with.
WholeString ==
    serialize_field([has |-> FALSE,
                     w |-> [buf |-> <<>>,
                            left |-> IF sw.left = Unlimited THEN Unlimited
                                     ELSE sw.left + Len(sw.buf)]],
                    Target.fields[1].key,
                    Text("str", Concat(Target.fields[1].value.fields)))

\* C34: escaping distributes over concatenation: however the Display of a
\* value splits its text into fragments, empty ones included, the fragments
\* escaped one after another leave in the writer exactly what escaping the
\* whole text in one call leaves, with the same result, also where the writer
\* fails part of the way.
C34_FragmentsAsWhole ==
    DisplayFieldDone =>
        /\ sw = WholeString.w
        /\ (IF stodo = <<>> THEN "none" ELSE sres) = WholeString.err
        /\ stodo = <<>> =>
               sw.buf = <<"k", "=", Quote>> \o Escaped(Concat(Target.fields[1].value.fields))

\* A Display that wrote a backslash, then a quote and a newline, has been
\* written as the whole text would be.
C34_Witness ==
    /\ DisplayFieldDone
    /\ stodo = <<>>
    /\ Target.fields[1].value.fields = <<<<Backslash>>, <<Quote, Newline>>>>
    /\ sw.buf = <<"k", "=", Quote, Backslash, Backslash, Backslash, Quote, Backslash, "n">>

\* ------------------------------------------------ claims: the sum wraps
\* k times 2^64.
TimesTwoTo64(k) == IF k = 0 THEN <<>> ELSE [i \in 1..U64Bytes |-> 0] \o NatToBytes(k)

RECURSIVE Pending(_)
\* The values of the calls of the threads ts that have not yet added to the sum.
Pending(ts) ==
    IF ts = {} THEN <<>>
    ELSE LET t == CHOOSE u \in ts : TRUE
         IN  AddBytes(IF pc[t] = "sum" THEN arg[t] ELSE <<>>, Pending(ts \ {t}))

\* C35: the sum is a 64-bit counter that wraps: at every point it is, modulo
\* 2^64, the total of the values whose fetch_add has run (at rest: of all the
\* values observed), it fits 64 bits, nothing saturates or fails where the
\* total is beyond 64 bits, and the count and the bucket counters number the
\* calls as if nothing had wrapped.
C35_SumWraps ==
    /\ Len(inner.sum) <= U64Bytes
    /\ \E k \in 0..started :
         AddBytes(AddBytes(inner.sum, Pending(Threads)), TimesTwoTo64(k)) = total
    /\ AllIdle =>
         /\ \E k \in 0..started : AddBytes(inner.sum, TimesTwoTo64(k)) = total
         /\ inner.count = NatToBytes(started)
         /\ BucketTotal(inner.buckets) = NatToBytes(started)

\* u64::MAX and 0.25 s have been observed: the total is beyond 64 bits, the
\* sum reads 249999999 and the count 2.
C35_Witness ==
    /\ AllIdle
    /\ total = AddBytes(U64MAX, NatToBytes(Tick))
    /\ Len(total) > U64Bytes
    /\ inner.sum = NatToBytes(Tick - 1)
    /\ inner.count = NatToBytes(2)
    /\ BucketTotal(inner.buckets) = NatToBytes(2)
====
